---------------------------- MODULE Spec2Model ----------------------------
(***************************************************************************)
(* Trade validation pipeline of the real-time trade settlement backend:    *)
(*   trade_agent.py       AgenticTradeValidator (assess_trade, learning)   *)
(*   trade_graph.py       the staged agent graph (planning, context,       *)
(*                        balance, risk, decision) and its router          *)
(*   ml_fraud_detector.py MLFraudDetector (predict_fraud, its statistics)  *)
(*                                                                         *)
(* External collaborators (ledger node, hosted language model, the packaged *)
(* classifier) are inputs chosen with \E from small sets.  Floating point  *)
(* scores in [0,1] are integers in hundredths (0.5 is 50, +0.1 is +10).    *)
(* Free text whose case or content the code inspects is a sequence of      *)
(* one-character strings.                                                  *)
(***************************************************************************)
EXTENDS Integers, Sequences, FiniteSets, TLC

VARIABLES
    \* AgenticTradeValidator fields (trade_agent.py:44-88)
    current_risk_threshold,
    trade_history,
    learned_patterns,
    enable_learning,
    enable_ml_fraud_detection,
    \* MLFraudDetector fields (ml_fraud_detector.py:48-59)
    detection_stats,
    ml_trade_history,
    price_history,
    trader_stats,
    threshold,          \* self.threshold of the packaged classifier
    \* the assess_trade call in flight
    pc,                 \* "idle", a graph node name, "combine", "done"
    req,                \* the arguments of the call
    ml_result,          \* what _run_ml_fraud_detection returned
    state,              \* the AgenticTradeState dict threaded through the graph
    nodes_run,          \* the graph nodes executed by graph.invoke, in order
    llm_response,       \* the reasoner's answer read by agent_decision_node
    result,             \* the assessment returned to the caller
    calls,              \* assess_trade calls started so far
    \* callers running concurrently on the one validator and detector:
    \* thread -> its position and locals (empty when there is one caller)
    threads,
    \* simulate_trade.py: simulation_stats and the transactions the market
    \* simulation has sent to the ledger
    simulation

vars == << current_risk_threshold, trade_history, learned_patterns,
           enable_learning, enable_ml_fraud_detection,
           detection_stats, ml_trade_history, price_history, trader_stats,
           threshold,
           pc, req, ml_result, state, nodes_run, llm_response, result, calls,
           threads, simulation >>

validator_memory == << current_risk_threshold, trade_history, learned_patterns >>

detector_memory == << detection_stats, ml_trade_history, price_history, trader_stats >>

call_locals == << req, ml_result, state, nodes_run, llm_response, result >>

config == << enable_learning, enable_ml_fraud_detection, threshold >>

-----------------------------------------------------------------------------
(* Bounds of the model *)

\* assess_trade calls in one behaviour of Spec
MaxCalls == 2

\* callers running concurrently on one validator or one detector
NumThreads == 2

\* longest short trade history a similar-trades query runs against
MaxHistoryLen == 5

\* longest investigation plan the planning reasoner returns in SpecPlans
MaxPlanLen == 2

-----------------------------------------------------------------------------
(* Text: str.lower, str.upper, str.strip and the `in` substring test *)

LowerAlpha == << "a","b","c","d","e","f","g","h","i","j","k","l","m",
                 "n","o","p","q","r","s","t","u","v","w","x","y","z" >>

UpperAlpha == << "A","B","C","D","E","F","G","H","I","J","K","L","M",
                 "N","O","P","Q","R","S","T","U","V","W","X","Y","Z" >>

UpperChar(c) ==
    IF \E i \in 1..26 : LowerAlpha[i] = c
    THEN UpperAlpha[CHOOSE i \in 1..26 : LowerAlpha[i] = c]
    ELSE c

LowerChar(c) ==
    IF \E i \in 1..26 : UpperAlpha[i] = c
    THEN LowerAlpha[CHOOSE i \in 1..26 : UpperAlpha[i] = c]
    ELSE c

Upper(s) == [i \in 1..Len(s) |-> UpperChar(s[i])]

Lower(s) == [i \in 1..Len(s) |-> LowerChar(s[i])]

RECURSIVE LStrip(_)
LStrip(s) == IF s # << >> /\ Head(s) = " " THEN LStrip(Tail(s)) ELSE s

RECURSIVE RStrip(_)
RStrip(s) ==
    IF s # << >> /\ s[Len(s)] = " " THEN RStrip(SubSeq(s, 1, Len(s) - 1)) ELSE s

Strip(s) == RStrip(LStrip(s))

Contains(s, sub) ==
    \E i \in 0..(Len(s) - Len(sub)) : SubSeq(s, i + 1, i + Len(sub)) = sub

T_APPROVE == << "A","P","P","R","O","V","E" >>
T_APPROVED == << "A","P","P","R","O","V","E","D" >>
T_REJECT == << "R","E","J","E","C","T" >>
T_REJECTED == << "R","E","J","E","C","T","E","D" >>
T_MANUAL_REVIEW == << "M","A","N","U","A","L","_","R","E","V","I","E","W" >>
T_approve == << "a","p","p","r","o","v","e" >>
T_reject_padded == << " ","R","e","j","e","c","t"," " >>
T_manual_review == << "m","a","n","u","a","l","_","r","e","v","i","e","w" >>
T_NOT_APPROVED == << "N","O","T","_","A","P","P","R","O","V","E","D" >>
T_HOLD == << "H","O","L","D" >>
T_low == << "l","o","w" >>
T_medium == << "m","e","d","i","u","m" >>
T_high == << "h","i","g","h" >>
T_critical == << "c","r","i","t","i","c","a","l" >>
T_HIGH == << "H","I","G","H" >>
T_Critical == << "C","r","i","t","i","c","a","l" >>
T_unknown == << "u","n","k","n","o","w","n" >>
T_error == << "e","r","r","o","r" >>
T_empty == << >>


-----------------------------------------------------------------------------
(* Inputs of assess_trade.  An address is described by what validate_inputs *)
(* inspects of it; an amount by its Python type and value.                  *)

Addr(id, isstr, has0x, len, hex) ==
    [id |-> id, isstr |-> isstr, has0x |-> has0x, len |-> len, hex |-> hex]

AddrA == Addr("A", TRUE, TRUE, 42, TRUE)
AddrB == Addr("B", TRUE, TRUE, 42, TRUE)
AddrNone == Addr("None", FALSE, FALSE, 0, FALSE)
AddrShort == Addr("short", TRUE, TRUE, 41, TRUE)
AddrNoPrefix == Addr("noprefix", TRUE, FALSE, 42, TRUE)
AddrNotHex == Addr("nothex", TRUE, TRUE, 42, FALSE)

ValidAddrs == {AddrA, AddrB}
BadAddrs == {AddrNone, AddrShort, AddrNoPrefix, AddrNotHex}

\* self.token_cash, self.token_sec: constructor arguments
TokenCash == Addr("CASH", TRUE, TRUE, 42, TRUE)
TokenSec == Addr("SEC", TRUE, TRUE, 42, TRUE)

Num(v) == [kind |-> "int", val |-> v]
NotANumber == [kind |-> "str", val |-> 0]
NoValue == [kind |-> "none", val |-> 0]

Request(tc, ts, rc, rs) ==
    [trader_cash |-> tc, trader_sec |-> ts, required_cash |-> rc, required_sec |-> rs]

\* _is_valid_address (the nested helper of validate_inputs)
IsValidAddress(a) ==
    /\ a.isstr
    /\ a.has0x /\ a.len = 42
    /\ a.hex            \* to_checksum_address raises on a non-hex body

\* first failing address of the four checked, as the message prefix, or "ok"
AddressError(addrs) ==
    IF \E i \in 1..Len(addrs) : addrs[i] = AddrNone \/ ~IsValidAddress(addrs[i])
    THEN LET i == CHOOSE j \in 1..Len(addrs) :
                    /\ addrs[j] = AddrNone \/ ~IsValidAddress(addrs[j])
                    /\ \A k \in 1..(j - 1) :
                          addrs[k] # AddrNone /\ IsValidAddress(addrs[k])
         IN IF addrs[i] = AddrNone THEN "Missing address"
                                   ELSE "Invalid address format"
    ELSE "ok"

NumericError(v) ==
    IF v.kind = "none" THEN "Missing value"
    ELSE IF v.kind # "int" THEN "Invalid type"
    ELSE IF v.val < 0 THEN "Negative value"
    ELSE "ok"

\* a faulty variant of ValidateInputs: the degenerate-trade check is left out
ValidateInputsNoZeroCheck(trader_cash, trader_sec, required_cash, required_sec) ==
    LET a == AddressError(<< trader_cash, trader_sec, TokenCash, TokenSec >>)
    IN IF a # "ok" THEN a
       ELSE IF NumericError(required_cash) # "ok" THEN NumericError(required_cash)
       ELSE NumericError(required_sec)

\* AgenticTradeValidator.validate_inputs: "ok" stands for the None it returns
\* on valid input, any other value for the error string
ValidateInputs(trader_cash, trader_sec, required_cash, required_sec) ==
    LET a == AddressError(<< trader_cash, trader_sec, TokenCash, TokenSec >>)
    IN IF a # "ok" THEN a
       ELSE IF NumericError(required_cash) # "ok" THEN NumericError(required_cash)
       ELSE IF NumericError(required_sec) # "ok" THEN NumericError(required_sec)
       ELSE IF required_cash.val = 0 /\ required_sec.val = 0
            THEN "Both required_cash and required_sec cannot be zero"
       ELSE "ok"

\* a faulty variant: the message is left out of reasoning_chain
CreateErrorResultNoMessage(error_message) ==
    [ approved |-> FALSE,
      final_decision |-> "error",
      confidence_score |-> 0,
      reasoning_chain |-> << "Error occurred: " >>,
      completed_checks |-> << >>,
      risk_assessment |-> << "e","r","r","o","r" >>,
      balance_status |-> "error",
      error |-> error_message ]

\* AgenticTradeValidator._create_error_result; error_message is the pieces
\* the caller's f-string joins, reasoning_chain is "Error occurred: " followed
\* by them
CreateErrorResult(error_message) ==
    [ approved |-> FALSE,
      final_decision |-> "error",
      confidence_score |-> 0,
      reasoning_chain |-> << "Error occurred: " >> \o error_message,
      completed_checks |-> << >>,
      risk_assessment |-> T_error,
      balance_status |-> "error",
      error |-> error_message ]

NoResult == [pending |-> TRUE]

NoRequest == [pending |-> TRUE]


-----------------------------------------------------------------------------
(* MLFraudDetector *)

Abs(x) == IF x < 0 THEN 0 - x ELSE x

Max(a, b) == IF a >= b THEN a ELSE b

Min(a, b) == IF a <= b THEN a ELSE b

\* seq[-n:]
LastN(seq, n) == SubSeq(seq, Max(1, Len(seq) - n + 1), Len(seq))

\* deque(maxlen=...) capacities
PRICE_HISTORY_MAXLEN == 100
ML_TRADE_HISTORY_MAXLEN == 1000

\* a faulty variant: a full deque refuses the new entry
DequeAppendKeepOldest(dq, x, cap) == IF Len(dq) >= cap THEN dq ELSE Append(dq, x)

\* deque.append on a deque(maxlen=cap): the oldest entry is dropped when full
DequeAppend(dq, x, cap) ==
    LET s == Append(dq, x)
    IN IF Len(s) > cap THEN SubSeq(s, Len(s) - cap + 1, Len(s)) ELSE s

\* trade_price of _run_ml_fraud_detection; the amounts of the model divide
\* without remainder
TradePrice(required_cash, required_sec) ==
    IF required_sec > 0 THEN required_cash \div required_sec ELSE 0

\* the four detector fields as one value
Detector == [ stats |-> detection_stats, trades |-> ml_trade_history,
              prices |-> price_history, traders |-> trader_stats ]

PricesOf(prices, token) == IF token \in DOMAIN prices THEN prices[token] ELSE << >>

\* _calculate_rolling_volatility: the price is appended first; the returns
\* divide by every earlier price of the window, so an earlier price of 0
\* raises ZeroDivisionError
VolatilityRaises(window) ==
    Len(window) >= 2 /\ \E i \in 1..(Len(window) - 1) : window[i] = 0

\* list(self.trade_history)[-100:] of _check_counterparty_repeat
COUNTERPARTY_WINDOW == 100

\* list(self.trade_history)[-20:] and the count of _detect_manipulation_attempt
MANIPULATION_WINDOW == 20
MANIPULATION_COUNT == 10

RECURSIVE Gcd(_, _)
Gcd(a, b) == IF b = 0 THEN a ELSE Gcd(b, a % b)

\* least common multiple of a set of positive numbers
RECURSIVE LcmOf(_)
LcmOf(S) ==
    IF S = {} THEN 1
    ELSE LET x == CHOOSE y \in S : TRUE
             l == LcmOf(S \ {x})
         IN (l \div Gcd(l, x)) * x

\* greatest common divisor of a set of numbers not all 0
RECURSIVE GcdOf(_)
GcdOf(S) ==
    IF S = {} THEN 0
    ELSE LET x == CHOOSE y \in S : TRUE IN Gcd(Abs(x), GcdOf(S \ {x}))

\* the sum of f[i] over the i in 1..m whose f[i] is in V, value by value
RECURSIVE SumByValue(_, _, _)
SumByValue(f, m, V) ==
    IF V = {} THEN 0
    ELSE LET v == CHOOSE y \in V : TRUE
         IN v * Cardinality({ i \in 1..m : f[i] = v })
            + SumByValue(f, m, V \ {v})

\* f[1] + ... + f[m]
SumOver(f, m) == SumByValue(f, m, { f[i] : i \in 1..m })

\* _calculate_rolling_volatility(...) < 0.1 for a window without an earlier
\* price of 0: the population standard deviation (np.std) of the returns
\* (prices[i] - prices[i-1]) / prices[i-1], compared exactly as
\* 100 * (m * sum(a^2) - sum(a)^2) < (m * L)^2 with the returns a[i] / L
\* (numerators and L reduced by their common divisor).  A window of fewer
\* than 2 prices gives the default 0.1, which is not below 0.1.
VolatilityBelowTenth(window) ==
    IF Len(window) < 2 THEN FALSE
    ELSE LET m == Len(window) - 1
             L0 == LcmOf({ window[i] : i \in 1..m })
             a0 == [i \in 1..m |->
                      (window[i + 1] - window[i]) * (L0 \div window[i])]
             g == GcdOf({ a0[i] : i \in 1..m } \cup {L0})
             L == L0 \div g
             a == [i \in 1..m |-> a0[i] \div g]
             sq == [i \in 1..m |-> a[i] * a[i]]
             s1 == SumOver(a, m)
         IN 100 * (m * SumOver(sq, m) - s1 * s1) < (m * L) * (m * L)

\* abs(price_deviation_pct) > 5.0 for price_deviation_pct of lines 164-165
PriceDeviationOver5(trade_price, market_price) ==
    market_price > 0 /\ 100 * Abs(trade_price - market_price) > 5 * market_price

\* a faulty variant: only the pair in the order given is looked for
CheckCounterpartyRepeatOrdered(trades, buyer, seller) ==
    IF \E i \in 1..Len(LastN(trades, COUNTERPARTY_WINDOW)) :
          LET t == LastN(trades, COUNTERPARTY_WINDOW)[i]
          IN t.buyer = buyer /\ t.seller = seller
    THEN 1 ELSE 0

\* MLFraudDetector._check_counterparty_repeat
CheckCounterpartyRepeat(trades, buyer, seller) ==
    LET recent_trades == LastN(trades, COUNTERPARTY_WINDOW)
    IN IF \E i \in 1..Len(recent_trades) :
             \/ recent_trades[i].buyer = buyer /\ recent_trades[i].seller = seller
             \/ recent_trades[i].buyer = seller /\ recent_trades[i].seller = buyer
       THEN 1 ELSE 0

\* a faulty variant: a count of exactly 10 already raises the flag
DetectManipulationAttemptAtTen(trades, deviates, calm, buyer, seller) ==
    LET recent_trades == LastN(trades, MANIPULATION_WINDOW)
        buyer_trades == Cardinality({ i \in 1..Len(recent_trades) :
                                         recent_trades[i].buyer = buyer })
        seller_trades == Cardinality({ i \in 1..Len(recent_trades) :
                                          recent_trades[i].seller = seller })
    IN IF deviates /\ calm THEN 1
       ELSE IF buyer_trades >= MANIPULATION_COUNT
               \/ seller_trades >= MANIPULATION_COUNT THEN 1
       ELSE 0

\* MLFraudDetector._detect_manipulation_attempt
DetectManipulationAttempt(trades, deviates, calm, buyer, seller) ==
    LET recent_trades == LastN(trades, MANIPULATION_WINDOW)
        buyer_trades == Cardinality({ i \in 1..Len(recent_trades) :
                                         recent_trades[i].buyer = buyer })
        seller_trades == Cardinality({ i \in 1..Len(recent_trades) :
                                          recent_trades[i].seller = seller })
    IN IF deviates /\ calm THEN 1
       ELSE IF buyer_trades > MANIPULATION_COUNT
               \/ seller_trades > MANIPULATION_COUNT THEN 1
       ELSE 0

\* features_extracted of a verdict that has none
NoFeatures == [extracted |-> FALSE]

BumpTrader(traders, t) ==
    [x \in DOMAIN traders \cup {t} |->
        IF x = t THEN (IF t \in DOMAIN traders THEN traders[t] ELSE 0) + 1
        ELSE traders[x]]

\* MLFraudDetector.extract_features, as its effect on the detector and
\* whether it returned a feature frame
ExtractFeatures(d, trade) ==
    LET window == DequeAppend(PricesOf(d.prices, trade.token), trade.trade_price,
                              PRICE_HISTORY_MAXLEN)
        prices1 == [t \in DOMAIN d.prices \cup {trade.token} |->
                       IF t = trade.token THEN window ELSE d.prices[t]]
    IN IF VolatilityRaises(window)
       THEN [ok |-> FALSE, det |-> [d EXCEPT !.prices = prices1],
             features |-> NoFeatures]
       ELSE [ok |-> TRUE,
             features |->
                [ extracted |-> TRUE,
                  trade_frequency |-> IF trade.buyer_id \in DOMAIN d.traders
                                      THEN d.traders[trade.buyer_id] ELSE 0,
                  counterparty_repeat |->
                     CheckCounterpartyRepeat(d.trades, trade.buyer_id,
                                             trade.seller_id),
                  attempted_manip |->
                     DetectManipulationAttempt(d.trades,
                        PriceDeviationOver5(trade.trade_price, trade.market_price),
                        VolatilityBelowTenth(window),
                        trade.buyer_id, trade.seller_id) ],
             det |-> [d EXCEPT
                 !.prices = prices1,
                 !.trades = DequeAppend(d.trades,
                                [buyer |-> trade.buyer_id, seller |-> trade.seller_id,
                                 size |-> trade.trade_size, price |-> trade.trade_price],
                                ML_TRADE_HISTORY_MAXLEN),
                 !.traders = BumpTrader(BumpTrader(d.traders, trade.buyer_id),
                                        trade.seller_id)]]

\* risk-level cut points of predict_fraud, in hundredths
RiskLevelOf(fraud_probability) ==
    IF fraud_probability >= 50 THEN "CRITICAL"
    ELSE IF fraud_probability >= 20 THEN "HIGH"
    ELSE IF fraud_probability >= 10 THEN "MEDIUM"
    ELSE "LOW"

\* a faulty variant: the decision threshold compared the wrong way round
IsFraudulentInverted(fraud_probability, thr) == fraud_probability < thr

IsFraudulent(fraud_probability, thr) == fraud_probability >= thr

\* a faulty variant: no verdict counts as fraud
MlDefaultSuspect(risk_level, reasoning) ==
    [ is_fraudulent |-> TRUE, fraud_probability |-> 100,
      risk_level |-> risk_level, reasoning |-> reasoning,
      features_extracted |-> NoFeatures ]

MlDefault(risk_level, reasoning) ==
    [ is_fraudulent |-> FALSE, fraud_probability |-> 0,
      risk_level |-> risk_level, reasoning |-> reasoning,
      features_extracted |-> NoFeatures ]

\* a faulty variant: a CRITICAL verdict is left out of the risk tally
CountVerdictWithoutCritical(s, level, fraud) ==
    [s EXCEPT
       !.high_risk = IF level = "HIGH" THEN @ + 1 ELSE @,
       !.medium_risk = IF level = "MEDIUM" THEN @ + 1 ELSE @,
       !.low_risk = IF level = "LOW" THEN @ + 1 ELSE @,
       !.fraud_detected = IF fraud THEN @ + 1 ELSE @]

\* lines 283-300 of predict_fraud: detection_stats after a verdict of the model
CountVerdict(s, level, fraud) ==
    [s EXCEPT
       !.high_risk = IF level \in {"CRITICAL", "HIGH"} THEN @ + 1 ELSE @,
       !.medium_risk = IF level = "MEDIUM" THEN @ + 1 ELSE @,
       !.low_risk = IF level = "LOW" THEN @ + 1 ELSE @,
       !.fraud_detected = IF fraud THEN @ + 1 ELSE @]

\* MLFraudDetector.predict_fraud: the verdict and the detector afterwards.
\* fraud_probability is the model's predict_proba answer, model_ok whether it
\* answered at all.
PredictFraud(d, trade, fraud_probability, model_ok, thr) ==
    LET d1 == [d EXCEPT !.stats.total_checks = @ + 1]
        ex == ExtractFeatures(d1, trade)
        level == RiskLevelOf(fraud_probability)
        fraud == IsFraudulent(fraud_probability, thr)
        s1 == CountVerdict(ex.det.stats, level, fraud)
    IN IF ~ex.ok
       THEN [verdict |-> MlDefault("UNKNOWN", "Feature extraction failed"),
             det |-> ex.det]
       ELSE IF ~model_ok
       THEN [verdict |-> MlDefault("UNKNOWN", "Prediction error"), det |-> ex.det]
       ELSE [verdict |-> [ is_fraudulent |-> fraud,
                           fraud_probability |-> fraud_probability,
                           risk_level |-> level,
                           reasoning |-> IF fraud THEN "FRAUD DETECTED"
                                                  ELSE "Trade appears legitimate",
                           features_extracted |-> ex.features ],
             det |-> [ex.det EXCEPT !.stats = s1]]

\* AgenticTradeValidator._run_ml_fraud_detection.  ledger_ok: the two
\* balanceOf reads that build trade_data succeeded.
RunMlFraudDetection(d, enabled, r, ledger_ok, fraud_probability, model_ok, thr) ==
    IF ~enabled
    THEN [verdict |-> MlDefault("UNKNOWN", "ML fraud detection disabled"), det |-> d]
    ELSE IF ~ledger_ok
    THEN [verdict |-> MlDefault("ERROR", "ML detection error"), det |-> d]
    ELSE PredictFraud(d,
            [ token |-> "GENERIC",
              buyer_id |-> r.trader_cash.id, seller_id |-> r.trader_sec.id,
              trade_size |-> r.required_sec.val,
              trade_price |-> TradePrice(r.required_cash.val, r.required_sec.val),
              market_price |-> TradePrice(r.required_cash.val, r.required_sec.val) ],
            fraud_probability, model_ok, thr)


-----------------------------------------------------------------------------
(* trade_graph.py: the agent graph *)

\* 10**21 in the source (the hard-coded "standard threshold" of the fallback
\* risk assessment).  TLC integers have 32 bits, so the model keeps the
\* constant's role with a smaller value above every ordinary amount.
STANDARD_THRESHOLD == 100000

FallbackPlan == << "balance_check", "risk_assessment", "pattern_analysis" >>

\* the state dict assess_trade hands to graph.invoke (trade_agent.py:348-370)
InitialState(r, thr) ==
    [ required_cash |-> r.required_cash.val,
      required_sec |-> r.required_sec.val,
      investigation_plan |-> << >>,
      completed_checks |-> << >>,
      current_risk_threshold |-> thr,
      confidence_score |-> 50,
      balance |-> "",
      risk_assessment |-> T_empty,
      final_decision |-> "",
      reasoning_chain |-> << >>,
      approved |-> FALSE,
      llm_decision_raw |-> T_empty,
      system_overrides |-> << >> ]

\* analyze_trade_pattern: the parsed answer, or the fallback dict when the
\* answer does not parse
AnalyzeTradePattern(answer) ==
    IF answer.kind = "parsed"
    THEN [ investigation_plan |-> answer.plan,
           has_confidence |-> answer.has_confidence,
           confidence_score |-> answer.confidence ]
    ELSE [ investigation_plan |-> FallbackPlan,
           has_confidence |-> TRUE,
           confidence_score |-> 70 ]

\* agent_planning_node
AgentPlanningNode(st, answer) ==
    LET analysis == AnalyzeTradePattern(answer)
    IN [st EXCEPT
          !.investigation_plan = analysis.investigation_plan,
          !.confidence_score = IF analysis.has_confidence
                               THEN analysis.confidence_score ELSE 50]

\* context_gathering_node
ContextGatheringNode(st) ==
    [st EXCEPT !.completed_checks = Append(@, "context_analysis")]

\* dynamic_balance_check: the status it returns.  ledger_ok is false when
\* the lookup raises (node unreachable, timeout, bad contract).
DynamicBalanceCheck(st, ledger_ok, bal_cash, bal_sec) ==
    IF ~ledger_ok THEN "error"
    ELSE IF bal_cash >= st.required_cash /\ bal_sec >= st.required_sec
         THEN "sufficient"
         ELSE "insufficient"

\* enhanced_balance_node
EnhancedBalanceNode(st, ledger_ok, bal_cash, bal_sec) ==
    [st EXCEPT
       !.balance = DynamicBalanceCheck(st, ledger_ok, bal_cash, bal_sec),
       !.completed_checks = Append(@, "balance_check")]

\* adaptive_risk_assessment: the parsed answer, or the fallback assessment
\* against the hard-coded threshold when the answer does not parse
AdaptiveRiskAssessment(st, answer) ==
    IF answer.kind = "parsed"
    THEN [ has_risk_level |-> answer.has_risk_level,
           risk_level |-> answer.risk_level,
           has_recommended |-> answer.has_recommended,
           recommended_threshold |-> answer.recommended_threshold ]
    ELSE [ has_risk_level |-> TRUE,
           risk_level |-> IF st.required_cash > STANDARD_THRESHOLD
                          THEN T_high ELSE T_low,
           has_recommended |-> TRUE,
           recommended_threshold |-> STANDARD_THRESHOLD ]

\* a faulty variant of the confidence update: no cap at 1.0
BumpConfidenceUncapped(c) == c + 10

\* min(confidence + 0.1, 1.0)
BumpConfidence(c) == IF c + 10 < 100 THEN c + 10 ELSE 100

\* intelligent_risk_node (risk_result["risk_level"] raises when the key is
\* missing; the action that runs the node handles that case)
IntelligentRiskNode(st, answer) ==
    LET risk_result == AdaptiveRiskAssessment(st, answer)
    IN [st EXCEPT
          !.risk_assessment = risk_result.risk_level,
          !.current_risk_threshold =
                IF risk_result.has_recommended
                THEN risk_result.recommended_threshold ELSE @,
          !.confidence_score = BumpConfidence(@),
          !.completed_checks = Append(@, "risk_assessment")]

Member(seq, x) == \E i \in 1..Len(seq) : seq[i] = x

\* a faulty variant of the router: balance is only run when it is planned
AdaptiveRouterPlannedOnly(st) ==
    IF ~Member(st.completed_checks, "context_analysis")
       /\ Member(st.investigation_plan, "context_analysis")
    THEN "context_gathering"
    ELSE IF ~Member(st.completed_checks, "balance_check")
            /\ Member(st.investigation_plan, "balance_check")
    THEN "enhanced_balance"
    ELSE IF ~Member(st.completed_checks, "risk_assessment")
    THEN "intelligent_risk"
    ELSE "agent_decision"

\* a faulty variant of the router: risk is routed before balance
AdaptiveRouterRiskFirst(st) ==
    IF ~Member(st.completed_checks, "context_analysis")
       /\ Member(st.investigation_plan, "context_analysis")
    THEN "context_gathering"
    ELSE IF ~Member(st.completed_checks, "risk_assessment")
    THEN "intelligent_risk"
    ELSE IF ~Member(st.completed_checks, "balance_check")
    THEN "enhanced_balance"
    ELSE "agent_decision"

\* adaptive_router
AdaptiveRouter(st) ==
    IF ~Member(st.completed_checks, "context_analysis")
       /\ Member(st.investigation_plan, "context_analysis")
    THEN "context_gathering"
    ELSE IF ~Member(st.completed_checks, "balance_check")
    THEN "enhanced_balance"
    ELSE IF ~Member(st.completed_checks, "risk_assessment")
    THEN "intelligent_risk"
    ELSE "agent_decision"


-----------------------------------------------------------------------------
(* agent_decision_node.  The reasoner's answer is described by what the    *)
(* node reads of it:                                                       *)
(*   kind       "object": json.loads gives a dict; "text": it raises (or   *)
(*              gives a non-dict, whose .get raises into the same except)   *)
(*   decision   str(parsed.get("decision", "")) of an object               *)
(*   block      group(1) of the DECISION: regex on a text, << >> if none    *)
(*   head_approve, head_reject                                             *)
(*              the word regexes on content[:200]                          *)
(*   reasoning_is_str  whether the reasoning the node ends with is a str    *)

Response(kind, decision, block, head_approve, head_reject, reasoning_is_str) ==
    [ kind |-> kind, decision |-> decision, block |-> block,
      head_approve |-> head_approve, head_reject |-> head_reject,
      reasoning_is_str |-> reasoning_is_str ]

NoResponse == [pending |-> TRUE]

\* lines 328-351: JSON first, then the DECISION: block; << >> stands for None
ParsedDecision(resp) ==
    IF resp.kind = "object"
    THEN Upper(Strip(resp.decision))
    ELSE IF resp.block # T_empty
         THEN LET d == Upper(resp.block)
              IN IF d = T_APPROVED THEN T_APPROVE
                 ELSE IF d = T_REJECTED THEN T_REJECT
                 ELSE d
         ELSE T_empty

\* lines 353-363: final normalization
NormalizedDecision(d) ==
    IF d = T_empty THEN T_empty
    ELSE IF Upper(d) \in {T_APPROVE, T_REJECT, T_MANUAL_REVIEW} THEN Upper(d)
    ELSE IF Contains(Upper(d), T_APPROVE) THEN T_APPROVE
    ELSE IF Contains(Upper(d), T_REJECT) THEN T_REJECT
    ELSE T_empty

\* lines 323-371: the decision the node extracts from the answer
ExtractDecision(resp) ==
    LET d == NormalizedDecision(ParsedDecision(resp))
    IN IF d # T_empty THEN d
       ELSE IF resp.head_approve THEN T_APPROVE
       ELSE IF resp.head_reject THEN T_REJECT
       ELSE T_empty

\* a faulty variant of the safety overrides: the risk override is left out
ApprovedAfterOverridesNoRisk(extracted_decision, conf, risk) ==
    extracted_decision = T_APPROVE /\ ~(conf < 50)

\* a faulty variant of the safety overrides: the confidence override is left out
ApprovedAfterOverridesNoConf(extracted_decision, conf, risk) ==
    extracted_decision = T_APPROVE /\ Lower(risk) \notin {T_high, T_critical}

\* lines 373-398: llm_approved after the system-level safety overrides
ApprovedAfterOverrides(extracted_decision, conf, risk) ==
    /\ extracted_decision = T_APPROVE
    /\ ~(conf < 50)
    /\ Lower(risk) \notin {T_high, T_critical}

\* lines 379-395: override_notes
OverrideNotes(extracted_decision, conf, risk) ==
    IF extracted_decision = T_APPROVE
    THEN (IF conf < 50 THEN << "System override: pipeline confidence too low" >>
                       ELSE << >>)
         \o (IF Lower(risk) \in {T_high, T_critical}
             THEN << "System override: risk level" >> ELSE << >>)
    ELSE IF extracted_decision = T_MANUAL_REVIEW
         THEN << "Decision set to MANUAL_REVIEW by LLM" >>
         ELSE << >>

\* line 399
FinalDecisionStr(final_approved, extracted_decision) ==
    IF final_approved THEN "approved"
    ELSE IF extracted_decision = T_MANUAL_REVIEW THEN "manual_review"
    ELSE "rejected"

\* agent_decision_node
AgentDecisionNode(st, resp) ==
    LET extracted_decision == ExtractDecision(resp)
        final_approved == ApprovedAfterOverrides(extracted_decision,
                              st.confidence_score, st.risk_assessment)
        notes == OverrideNotes(extracted_decision, st.confidence_score,
                               st.risk_assessment)
    IN [st EXCEPT
          !.approved = final_approved,
          !.final_decision = FinalDecisionStr(final_approved, extracted_decision),
          !.reasoning_chain = << "reasoning" >>
                \o (IF notes # << >> THEN << "SYSTEM OVERRIDE" >> \o notes ELSE << >>),
          !.llm_decision_raw = extracted_decision,
          !.system_overrides = notes]

-----------------------------------------------------------------------------
(* trade_agent.py: combining the verdicts, and learning *)

TRADE_HISTORY_LIMIT == 1000

\* a faulty variant: the classifier verdict is not consulted
FinalApprovedIgnoringMl(agent_approved, ml_fraud_detected) == agent_approved

\* a faulty variant: only the first call made on a validator can approve
FinalApprovedFirstCallOnly(agent_approved, ml_fraud_detected) ==
    agent_approved /\ ~ml_fraud_detected /\ calls = 0

\* line 383
FinalApproved(agent_approved, ml_fraud_detected) ==
    agent_approved /\ ~ml_fraud_detected

\* a faulty variant: the graph's upper-case decision words are returned
AssessmentDecisionStrUpper(final_approved) ==
    IF final_approved THEN "APPROVE" ELSE "REJECT"

\* line 406: the final_decision of the returned assessment; the graph's own
\* final_decision string is not read
AssessmentDecisionStr(final_approved) ==
    IF final_approved THEN "approved" ELSE "rejected"

\* lines 378-450: comprehensive_result
ComprehensiveResult(r, st, ml, thr) ==
    LET agent_approved == st.approved
        ml_fraud_detected == ml.is_fraudulent
        final_approved == FinalApproved(agent_approved, ml_fraud_detected)
    IN [ approved |-> final_approved,
         final_decision |-> AssessmentDecisionStr(final_approved),
         confidence_score |-> st.confidence_score,
         reasoning_chain |-> st.reasoning_chain
              \o (IF agent_approved /\ ml_fraud_detected
                  THEN << "ML FRAUD DETECTION OVERRIDE" >> ELSE << >>),
         investigation_plan |-> st.investigation_plan,
         completed_checks |-> st.completed_checks,
         risk_assessment |-> st.risk_assessment,
         ml_fraud_detection |->
              [ fraud_detected |-> ml_fraud_detected,
                fraud_probability |-> ml.fraud_probability,
                risk_level |-> ml.risk_level ],
         agent_decision |-> agent_approved,
         ml_override |-> ml_fraud_detected /\ agent_approved,
         balance_status |-> st.balance,
         trade_details |->
              [ required_cash |-> r.required_cash.val,
                required_sec |-> r.required_sec.val,
                current_risk_threshold |-> thr ],
         recommended_threshold |-> st.current_risk_threshold,
         threshold_adjusted |-> st.current_risk_threshold # thr ]

(* int(old_threshold * 0.7 + new_threshold * 0.3), line 218, in IEEE-754      *)
(* double arithmetic for non-negative integers.  The literals are the        *)
(* doubles 0.7 = (7 - 4 * 2^-53) / 10 and 0.3 = (3 - 2^-53) / 10.  Each       *)
(* product and the sum are rounded to nearest, ties to even; int() truncates. *)
(* Rounding errors are counted in units of 2^-54 / 10.                        *)
RECURSIVE Pow2(_)
Pow2(k) == IF k <= 0 THEN 1 ELSE 2 * Pow2(k - 1)

\* E + 2 for the binary exponent E of c10 * o / 10, o > 0 (E >= -2)
RECURSIVE ExponentPlus2(_, _, _)
ExponentPlus2(c10, o, k) ==
    IF Pow2(k + 1) * 10 <= 4 * c10 * o THEN ExponentPlus2(c10, o, k + 1) ELSE k

\* 2^K mod 20 for K >= 2
Pow2Mod20(K) == CASE K % 4 = 0 -> 16 [] K % 4 = 1 -> 12
                  [] K % 4 = 2 -> 4  [] OTHER -> 8

\* fl(o * c) - o * c10 / 10 for the double c = (c10 - Dc * 2^-53) / 10
ProductError(c10, Dc, o) ==
    IF o = 0 THEN 0
    ELSE
    LET e2 == ExponentPlus2(c10, o, 0)
        K == 54 - e2
        a20 == (((c10 * o) % 20) * Pow2Mod20(K)) % 20
        r == a20 % 10
        q_odd == ((a20 - r) \div 10) % 2 = 1
        V == r * Pow2(e2) - 2 * Dc * o
        H == 10 * Pow2(e2)
        rho == IF 2 * V > H THEN 1
               ELSE IF 2 * V < 0 - H THEN 0 - 1
               ELSE IF 2 * V = H THEN (IF q_odd THEN 1 ELSE 0)
               ELSE IF 2 * V = 0 - H THEN (IF q_odd THEN 0 - 1 ELSE 0)
               ELSE 0
    IN (10 * rho - r) * Pow2(e2)

\* floor(log2(x)) for x >= 1
RECURSIVE Log2(_)
Log2(x) == IF x < 2 THEN 0 ELSE 1 + Log2(x \div 2)

\* a faulty variant: the weights the wrong way round
SmoothedThresholdSwapped(old_threshold, new_threshold) ==
    (3 * old_threshold + 7 * new_threshold) \div 10

SmoothedThreshold(old_threshold, new_threshold) ==
    LET x10 == 7 * old_threshold + 3 * new_threshold
        X == x10 \div 10
    IN IF x10 % 10 # 0 \/ X = 0 THEN X
       ELSE LET EX == Log2(X)
                half == IF X = Pow2(EX) THEN 10 * Pow2(EX) ELSE 10 * Pow2(EX + 1)
                e == ProductError(7, 4, old_threshold)
                     + ProductError(3, 1, new_threshold)
            IN IF 0 - e > half THEN X - 1 ELSE X

\* trade_history[-50:]
SIMILAR_WINDOW == 50

\* default of the limit parameter of _get_similar_trades
DEFAULT_LIMIT == 5

\* abs(stored - query) / max(query, 1) < 0.2, for integer amounts
WithinFifth(stored, query) == 5 * Abs(stored - query) < Max(query, 1)

\* a faulty variant: only the cash amount is compared
IsSimilarCashOnly(trade, required_cash, required_sec) ==
    WithinFifth(trade.required_cash, required_cash)

\* line 177
IsSimilar(trade, required_cash, required_sec) ==
    /\ WithinFifth(trade.required_cash, required_cash)
    /\ WithinFifth(trade.required_sec, required_sec)

\* lines 178-184; the stored timestamp is represented by the record's
\* position in trade_history (records are appended in time order)
SimilarEntry(trade, i) ==
    [ amount_cash |-> trade.required_cash,
      amount_sec |-> trade.required_sec,
      outcome |-> IF trade.approved THEN "approved" ELSE "rejected",
      timestamp |-> i,
      confidence |-> trade.confidence_score ]

\* lines 172-184: the loop over trade_history[-50:], from position i on
RECURSIVE CollectSimilar(_, _, _, _)
CollectSimilar(history, i, required_cash, required_sec) ==
    IF i > Len(history) THEN << >>
    ELSE (IF IsSimilar(history[i], required_cash, required_sec)
          THEN << SimilarEntry(history[i], i) >> ELSE << >>)
         \o CollectSimilar(history, i + 1, required_cash, required_sec)

\* AgenticTradeValidator._get_similar_trades
GetSimilarTrades(history, required_cash, required_sec, limit) ==
    IF history = << >> THEN << >>
    ELSE LET similar == CollectSimilar(history,
                                       Max(1, Len(history) - SIMILAR_WINDOW + 1),
                                       required_cash, required_sec)
         IN SubSeq(similar, 1, Min(limit, Len(similar)))

\* a faulty variant of the trim: the oldest records are kept
TrimHistoryKeepOldest(history) ==
    IF Len(history) > TRADE_HISTORY_LIMIT
    THEN SubSeq(history, 1, TRADE_HISTORY_LIMIT)
    ELSE history

\* lines 230-231: self.trade_history = self.trade_history[-1000:]
TrimHistory(history) ==
    IF Len(history) > TRADE_HISTORY_LIMIT
    THEN SubSeq(history, Len(history) - TRADE_HISTORY_LIMIT + 1, Len(history))
    ELSE history

Memory == [ threshold |-> current_risk_threshold,
            history |-> trade_history,
            patterns |-> learned_patterns ]

\* lines 194-202: trade_record (timestamps and the reasoning text left out)
TradeRecord(res) ==
    [ required_cash |-> res.trade_details.required_cash,
      required_sec |-> res.trade_details.required_sec,
      approved |-> res.approved,
      confidence_score |-> res.confidence_score,
      risk_level |-> res.risk_assessment ]

\* a faulty variant: the learning switch is not consulted
LearningNeverSkipped(learning) == FALSE

\* lines 189-190: if not self.enable_learning: return
LearningSkipped(learning) == ~learning

\* AgenticTradeValidator._update_learning: the validator's memory afterwards
UpdateLearning(m, learning, res) ==
    IF LearningSkipped(learning) THEN m
    ELSE
    LET trade_record == TradeRecord(res)
        appended == Append(m.history, trade_record)
        adapt == res.recommended_threshold # 0
        new_threshold ==
            IF adapt THEN SmoothedThreshold(m.threshold, res.recommended_threshold)
                     ELSE m.threshold
        p1 == IF res.approved
              THEN [m.patterns EXCEPT !.approved_trades = Append(@, trade_record)]
              ELSE [m.patterns EXCEPT !.rejected_trades = Append(@, trade_record)]
        p2 == IF adapt
              THEN [p1 EXCEPT !.risk_adjustments =
                       Append(@, [ old_threshold |-> m.threshold,
                                   new_threshold |-> new_threshold ])]
              ELSE p1
    IN [ threshold |-> new_threshold,
         history |-> TrimHistory(appended),
         patterns |-> p2 ]


-----------------------------------------------------------------------------
(* The state after construction *)

\* the locals of a call that has not reached them
NoThreads == << >>

\* simulate_trade.py:106-125, simulation_stats when the module is loaded
\* (the per-stock statistics, the volume and the classifier's risk tally
\* are left out), and a ledger that has received no transaction from it
EmptySimulationStats ==
    [ total_attempts |-> 0, approved_trades |-> 0, rejected_trades |-> 0,
      ml_fraud_blocked |-> 0, agent_rejected |-> 0, executed_trades |-> 0,
      execution_failures |-> 0, high_confidence_decisions |-> 0 ]

NoSimulation == [ stats |-> EmptySimulationStats, ledger |-> << >> ]

NoMlResult == MlDefault("UNKNOWN", "")

NoState == InitialState(Request(AddrA, AddrB, Num(0), Num(0)), 0)

EmptyPatterns ==
    [ approved_trades |-> << >>, rejected_trades |-> << >>, risk_adjustments |-> << >> ]

EmptyStats ==
    [ total_checks |-> 0, fraud_detected |-> 0,
      high_risk |-> 0, medium_risk |-> 0, low_risk |-> 0 ]

\* AgenticTradeValidator.__init__ and MLFraudDetector.__init__.  The
\* threshold is the constructor's argument after its normalisation to
\* human units; enable_ml_fraud_detection is false when asked for or when
\* the detector could not be loaded.
FreshValidator(Thresholds, Learning, MlEnabled, MlThresholds) ==
    /\ current_risk_threshold \in Thresholds
    /\ trade_history = << >>
    /\ learned_patterns = EmptyPatterns
    /\ enable_learning \in Learning
    /\ enable_ml_fraud_detection \in MlEnabled
    /\ detection_stats = EmptyStats
    /\ ml_trade_history = << >>
    /\ price_history = << >>
    /\ trader_stats = << >>
    /\ threshold \in MlThresholds
    /\ pc = "idle"
    /\ req = NoRequest
    /\ ml_result = NoMlResult
    /\ state = NoState
    /\ nodes_run = << >>
    /\ llm_response = NoResponse
    /\ result = NoResult
    /\ calls = 0

InitWith(Thresholds, Learning, MlEnabled, MlThresholds) ==
    /\ FreshValidator(Thresholds, Learning, MlEnabled, MlThresholds)
    /\ threads = NoThreads /\ simulation = NoSimulation

-----------------------------------------------------------------------------
(* assess_trade, step by step *)

CanStart(limit) == pc \in {"idle", "done"} /\ calls < limit

\* lines 327-330: validation fails, the error result is returned at once
RejectInvalid(limit, Requests) ==
    /\ CanStart(limit)
    /\ \E r \in Requests :
          LET validation_error == ValidateInputs(r.trader_cash, r.trader_sec,
                                                 r.required_cash, r.required_sec)
          IN /\ validation_error # "ok"
             /\ req' = r
             /\ result' = CreateErrorResult(<< validation_error >>)
    /\ pc' = "done"
    /\ calls' = calls + 1
    /\ nodes_run' = << >>
    /\ llm_response' = NoResponse
    /\ ml_result' = NoMlResult
    /\ state' = NoState
    /\ UNCHANGED << validator_memory, detector_memory, config, threads, simulation >>

\* lines 327-373: validation passes, the classifier runs, the graph state is
\* prepared and graph.invoke enters the planning node
BeginAssessment(limit, Requests, LedgerOk, Probabilities, ModelOk) ==
    /\ CanStart(limit)
    /\ \E r \in Requests, ledger_ok \in LedgerOk,
          fraud_probability \in Probabilities, model_ok \in ModelOk :
          LET ml == RunMlFraudDetection(Detector, enable_ml_fraud_detection, r,
                        ledger_ok, fraud_probability, model_ok, threshold)
          IN /\ ValidateInputs(r.trader_cash, r.trader_sec,
                               r.required_cash, r.required_sec) = "ok"
             /\ req' = r
             /\ ml_result' = ml.verdict
             /\ detection_stats' = ml.det.stats
             /\ ml_trade_history' = ml.det.trades
             /\ price_history' = ml.det.prices
             /\ trader_stats' = ml.det.traders
             /\ state' = InitialState(r, current_risk_threshold)
    /\ pc' = "agent_planning"
    /\ calls' = calls + 1
    /\ nodes_run' = << >>
    /\ llm_response' = NoResponse
    /\ result' = NoResult
    /\ UNCHANGED << validator_memory, config, threads, simulation >>

\* str(e) of the exceptions the graph nodes raise: the reasoner call fails,
\* risk_result["risk_level"] is missing, reasoning_text is not a string
E_reasoner == "reasoner call failed"
E_risk_level == "'risk_level'"
E_strip == "object has no attribute 'strip'"

ExceptionMessages == { E_reasoner, E_risk_level, E_strip }

\* a faulty variant: the handler records the interrupted trade before it
\* returns the error result
RaiseInGraphCommitting(e) ==
    /\ result' = CreateErrorResult(<< "Error during agentic assessment: ", e >>)
    /\ pc' = "done"
    /\ trade_history' = Append(trade_history,
                               [ required_cash |-> state.required_cash,
                                 required_sec |-> state.required_sec,
                                 approved |-> FALSE,
                                 confidence_score |-> state.confidence_score,
                                 risk_level |-> state.risk_assessment ])
    /\ UNCHANGED << req, ml_result, state, nodes_run, llm_response >>
    /\ UNCHANGED << current_risk_threshold, learned_patterns,
                    detector_memory, config, calls, threads, simulation >>

\* lines 457-459: an exception e inside graph.invoke becomes an error result
\* whose message ends with str(e)
RaiseInGraph(e) ==
    /\ result' = CreateErrorResult(<< "Error during agentic assessment: ", e >>)
    /\ pc' = "done"
    /\ UNCHANGED << req, ml_result, state, nodes_run, llm_response >>
    /\ UNCHANGED << validator_memory, detector_memory, config, calls, threads, simulation >>

\* a node returned: the router picks the next node
NodeReturns(node, st) ==
    /\ state' = st
    /\ nodes_run' = Append(nodes_run, node)
    /\ pc' = AdaptiveRouter(st)
    /\ UNCHANGED << req, ml_result, result >>
    /\ UNCHANGED << validator_memory, detector_memory, config, calls, threads, simulation >>

\* agent_planning_node; answer.kind = "fault": the reasoner call raises, or
\* its JSON is not an object
AgentPlanning(Answers) ==
    /\ pc = "agent_planning"
    /\ \E answer \in Answers :
          IF answer.kind = "fault"
          THEN RaiseInGraph(E_reasoner)
          ELSE /\ NodeReturns("agent_planning", AgentPlanningNode(state, answer))
               /\ UNCHANGED llm_response

ContextGathering ==
    /\ pc = "context_gathering"
    /\ NodeReturns("context_gathering", ContextGatheringNode(state))
    /\ UNCHANGED llm_response

EnhancedBalance(LedgerAnswers) ==
    /\ pc = "enhanced_balance"
    /\ \E l \in LedgerAnswers :
          NodeReturns("enhanced_balance",
                      EnhancedBalanceNode(state, l.ok, l.bal_cash, l.bal_sec))
    /\ UNCHANGED llm_response

\* intelligent_risk_node; it raises when the reasoner call raises or when the
\* parsed assessment has no "risk_level"
IntelligentRisk(Answers) ==
    /\ pc = "intelligent_risk"
    /\ \E answer \in Answers :
          IF answer.kind = "fault"
          THEN RaiseInGraph(E_reasoner)
          ELSE IF ~AdaptiveRiskAssessment(state, answer).has_risk_level
          THEN RaiseInGraph(E_risk_level)
          ELSE /\ NodeReturns("intelligent_risk", IntelligentRiskNode(state, answer))
               /\ UNCHANGED llm_response

\* agent_decision_node; it raises when the reasoner call raises or when the
\* reasoning it ends with is not a string (reasoning_text.strip()).  The node
\* is the last one: graph.invoke returns to assess_trade.
AgentDecision(Responses) ==
    /\ pc = "agent_decision"
    /\ \E resp \in Responses :
          IF resp.kind = "fault"
          THEN RaiseInGraph(E_reasoner)
          ELSE IF ~resp.reasoning_is_str
          THEN RaiseInGraph(E_strip)
          ELSE /\ state' = AgentDecisionNode(state, resp)
               /\ nodes_run' = Append(nodes_run, "agent_decision")
               /\ llm_response' = resp
               /\ pc' = "combine"
               /\ UNCHANGED << req, ml_result, result >>
               /\ UNCHANGED << validator_memory, detector_memory, config, calls, threads, simulation >>

\* lines 378-455: the verdicts are combined, the validator learns from the
\* trade, the assessment is returned
CompleteAssessment ==
    /\ pc = "combine"
    /\ LET res == ComprehensiveResult(req, state, ml_result, current_risk_threshold)
           m == UpdateLearning(Memory, enable_learning, res)
       IN /\ result' = res
          /\ current_risk_threshold' = m.threshold
          /\ trade_history' = m.history
          /\ learned_patterns' = m.patterns
    /\ pc' = "done"
    /\ UNCHANGED << req, ml_result, state, nodes_run, llm_response >>
    /\ UNCHANGED << detector_memory, config, calls, threads, simulation >>


-----------------------------------------------------------------------------
(* assess_trade as one call, and assess_multiple_trades *)

\* what the collaborators answer during one assess_trade call
CallAnswers(ledger_ok, fraud_probability, model_ok, plan, ledger, risk, decision) ==
    [ ledger_ok |-> ledger_ok, fraud_probability |-> fraud_probability,
      model_ok |-> model_ok, plan |-> plan, ledger |-> ledger, risk |-> risk,
      decision |-> decision ]

GraphRaised(e) == [ok |-> FALSE, e |-> e]

\* the one element of a one-element set; { f(x) : x \in {e} } computes e once
Only(S) == CHOOSE x \in S : TRUE

\* self.graph.invoke(initial_state): the nodes run from node on, the router
\* choosing each successor, until the decision node returns or a node raises
RECURSIVE GraphInvoke(_, _, _)
GraphInvoke(node, st, a) ==
    CASE node = "agent_planning" ->
            IF a.plan.kind = "fault" THEN GraphRaised(E_reasoner)
            ELSE Only({ GraphInvoke(AdaptiveRouter(s1), s1, a) :
                          s1 \in {AgentPlanningNode(st, a.plan)} })
      [] node = "context_gathering" ->
            Only({ GraphInvoke(AdaptiveRouter(s1), s1, a) :
                     s1 \in {ContextGatheringNode(st)} })
      [] node = "enhanced_balance" ->
            Only({ GraphInvoke(AdaptiveRouter(s1), s1, a) :
                     s1 \in {EnhancedBalanceNode(st, a.ledger.ok, a.ledger.bal_cash,
                                                 a.ledger.bal_sec)} })
      [] node = "intelligent_risk" ->
            IF a.risk.kind = "fault" THEN GraphRaised(E_reasoner)
            ELSE IF ~AdaptiveRiskAssessment(st, a.risk).has_risk_level
            THEN GraphRaised(E_risk_level)
            ELSE Only({ GraphInvoke(AdaptiveRouter(s1), s1, a) :
                          s1 \in {IntelligentRiskNode(st, a.risk)} })
      [] node = "agent_decision" ->
            IF a.decision.kind = "fault" THEN GraphRaised(E_reasoner)
            ELSE IF ~a.decision.reasoning_is_str THEN GraphRaised(E_strip)
            ELSE [ok |-> TRUE, st |-> AgentDecisionNode(st, a.decision)]

\* lines 373-459 of assess_trade: what the call returns and leaves behind
\* once the classifier has given ml and graph.invoke has ended as out
CombineAndLearn(m, learning, r, ml, out) ==
    IF ~out.ok
    THEN [ result |-> CreateErrorResult(<< "Error during agentic assessment: ",
                                           out.e >>),
           verdict |-> ml.verdict, memory |-> m, det |-> ml.det ]
    ELSE Only({ [ result |-> res, verdict |-> ml.verdict,
                  memory |-> UpdateLearning(m, learning, res), det |-> ml.det ] :
                res \in {ComprehensiveResult(r, out.st, ml.verdict, m.threshold)} })

\* AgenticTradeValidator.assess_trade from validator memory m and detector
\* d: the assessment returned, the classifier's verdict, and the memory and
\* the detector afterwards
AssessTrade(m, d, learning, ml_enabled, thr, r, a) ==
    LET validation_error == ValidateInputs(r.trader_cash, r.trader_sec,
                                           r.required_cash, r.required_sec)
    IN IF validation_error # "ok"
       THEN [ result |-> CreateErrorResult(<< validation_error >>),
              verdict |-> NoMlResult, memory |-> m, det |-> d ]
       ELSE Only({ CombineAndLearn(m, learning, r, ml, out) :
                     ml \in {RunMlFraudDetection(d, ml_enabled, r, a.ledger_ok,
                                 a.fraud_probability, a.model_ok, thr)},
                     out \in {GraphInvoke("agent_planning",
                                          InitialState(r, m.threshold), a)} })

\* the state the calls of one validator share
SharedState ==
    [ memory |-> Memory, det |-> Detector, learning |-> enable_learning,
      ml_enabled |-> enable_ml_fraud_detection, threshold |-> threshold ]

\* assess_trade as one call; threads keeps, for every call made, the shared
\* state it started from, its arguments, the collaborators' answers and the
\* assessment it returned
AssessTradeCall(limit, Requests, Answers) ==
    /\ CanStart(limit)
    /\ \E r \in Requests, a \in Answers, m \in {Memory}, d \in {Detector} :
          \E out \in {AssessTrade(m, d, enable_learning,
                                   enable_ml_fraud_detection, threshold, r, a)} :
             /\ req' = r
             /\ result' = out.result
             /\ ml_result' = out.verdict
             /\ current_risk_threshold' = out.memory.threshold
             /\ trade_history' = out.memory.history
             /\ learned_patterns' = out.memory.patterns
             /\ detection_stats' = out.det.stats
             /\ ml_trade_history' = out.det.trades
             /\ price_history' = out.det.prices
             /\ trader_stats' = out.det.traders
             /\ threads' = Append(threads,
                                  [ start |-> SharedState, request |-> r,
                                    answers |-> a, result |-> out.result ])
    /\ pc' = "done"
    /\ calls' = calls + 1
    /\ UNCHANGED << state, nodes_run, llm_response, config, simulation >>

\* a validator in the state an earlier call started from (a second validator
\* set up alike)
SameStateAgain ==
    /\ pc = "done"
    /\ \E i \in 1..Len(threads) :
          LET s == threads[i].start
          IN /\ s # SharedState
             /\ current_risk_threshold' = s.memory.threshold
             /\ trade_history' = s.memory.history
             /\ learned_patterns' = s.memory.patterns
             /\ detection_stats' = s.det.stats
             /\ ml_trade_history' = s.det.trades
             /\ price_history' = s.det.prices
             /\ trader_stats' = s.det.traders
    /\ UNCHANGED << pc, call_locals, calls, simulation, config, threads, simulation >>

\* a batch item that is not a dict with the four keys: trade['trader_cash']
\* raises inside the loop's try
MissingKey == [missing_key |-> "trader_cash"]

\* the except branch of the loop of assess_multiple_trades
BatchErrorResult(i, e) ==
    [ trade_index |-> i, approved |-> FALSE, final_decision |-> "error",
      confidence_score |-> 0, reasoning_chain |-> << "Processing error: ", e >>,
      error |-> e ]

\* result['trade_index'] = i
WithTradeIndex(res, i) ==
    [k \in DOMAIN res \cup {"trade_index"} |->
        IF k = "trade_index" THEN i ELSE res[k]]

\* the loop of assess_multiple_trades over trades[k..]: the results appended
\* so far, the memory and the detector
RECURSIVE BatchLoop(_, _, _, _, _, _, _, _, _)
BatchLoop(trades, answers, k, results, m, d, learning, ml_enabled, thr) ==
    IF k > Len(trades) THEN [results |-> results, memory |-> m, det |-> d]
    ELSE IF "missing_key" \in DOMAIN trades[k]
    THEN Only({ BatchLoop(trades, answers, k + 1, results1, m, d, learning,
                          ml_enabled, thr) :
                  results1 \in {Append(results,
                                   BatchErrorResult(k - 1, trades[k].missing_key))} })
    ELSE Only({ Only({ BatchLoop(trades, answers, k + 1, results1, m1, d1,
                                 learning, ml_enabled, thr) :
                         results1 \in {Append(results,
                                          WithTradeIndex(out.result, k - 1))},
                         m1 \in {out.memory}, d1 \in {out.det} }) :
                  out \in {AssessTrade(m, d, learning, ml_enabled, thr, trades[k],
                                       answers[k])} })

\* a faulty variant: rejected_trades counts the results that say rejected
BatchStatisticsCountingRejected(trades, results) ==
    [ total_trades |-> Len(trades),
      approved_trades |-> Cardinality({ i \in 1..Len(results) : results[i].approved }),
      rejected_trades |-> Cardinality({ i \in 1..Len(results) :
                                           results[i].final_decision = "rejected" }),
      high_risk_trades |-> Cardinality({ i \in 1..Len(results) :
                              "risk_assessment" \in DOMAIN results[i]
                              /\ results[i].risk_assessment \in {T_high, T_critical} }) ]

\* lines 541-561: the statistics of the batch
BatchStatistics(trades, results) ==
    LET total_trades == Len(trades)
        approved_trades == Cardinality({ i \in 1..Len(results) : results[i].approved })
    IN [ total_trades |-> total_trades,
         approved_trades |-> approved_trades,
         rejected_trades |-> total_trades - approved_trades,
         high_risk_trades |-> Cardinality({ i \in 1..Len(results) :
                                 "risk_assessment" \in DOMAIN results[i]
                                 /\ results[i].risk_assessment \in {T_high, T_critical} }) ]

\* AgenticTradeValidator.assess_multiple_trades as one call.  req holds the
\* batch, result what the call returned.
AssessMultipleTrades(limit, Batches, Answers) ==
    /\ CanStart(limit)
    /\ \E trades \in Batches :
          \E answers \in [1..Len(trades) -> Answers] :
             \E out \in {BatchLoop(trades, answers, 1, << >>, Memory, Detector,
                                    enable_learning, enable_ml_fraud_detection,
                                    threshold)} :
                /\ req' = trades
                /\ result' = [ batch_results |-> out.results,
                               statistics |-> BatchStatistics(trades, out.results) ]
                /\ current_risk_threshold' = out.memory.threshold
                /\ trade_history' = out.memory.history
                /\ learned_patterns' = out.memory.patterns
                /\ detection_stats' = out.det.stats
                /\ ml_trade_history' = out.det.trades
                /\ price_history' = out.det.prices
                /\ trader_stats' = out.det.traders
    /\ pc' = "done"
    /\ calls' = calls + 1
    /\ UNCHANGED << ml_result, state, nodes_run, llm_response, config, threads, simulation >>

-----------------------------------------------------------------------------
(* The validator's other methods.  req names the method called, result is    *)
(* what it returned.                                                         *)

MethodCall(name) == [method |-> name]

Idle == pc \in {"idle", "done"}

\* a faulty variant: the reset also puts the threshold back to its default
ResetLearningAll ==
    /\ Idle
    /\ trade_history' = << >>
    /\ learned_patterns' = EmptyPatterns
    /\ current_risk_threshold' = 1000
    /\ req' = MethodCall("reset_learning")
    /\ result' = NoResult
    /\ pc' = "done"
    /\ UNCHANGED << ml_result, state, nodes_run, llm_response, calls >>
    /\ UNCHANGED << detector_memory, config, threads, simulation >>

\* AgenticTradeValidator.reset_learning (returns None)
ResetLearning ==
    /\ Idle
    /\ trade_history' = << >>
    /\ learned_patterns' = EmptyPatterns
    /\ req' = MethodCall("reset_learning")
    /\ result' = NoResult
    /\ pc' = "done"
    /\ UNCHANGED << current_risk_threshold, ml_result, state, nodes_run,
                    llm_response, calls >>
    /\ UNCHANGED << detector_memory, config, threads, simulation >>

\* AgenticTradeValidator.get_agent_memory
GetAgentMemory ==
    /\ Idle
    /\ req' = MethodCall("get_agent_memory")
    /\ result' =
          [ total_trades_processed |-> Len(trade_history),
            current_risk_threshold |-> current_risk_threshold,
            learned_patterns |->
               [ total_approved |-> Len(learned_patterns.approved_trades),
                 total_rejected |-> Len(learned_patterns.rejected_trades),
                 threshold_adjustments |-> Len(learned_patterns.risk_adjustments),
                 recent_adjustments |-> LastN(learned_patterns.risk_adjustments, 5) ],
            recent_trades |-> LastN(trade_history, 10),
            learning_enabled |-> enable_learning ]
    /\ pc' = "done"
    /\ UNCHANGED << ml_result, state, nodes_run, llm_response, calls >>
    /\ UNCHANGED << validator_memory, detector_memory, config, threads, simulation >>

\* AgenticTradeValidator.get_health_status; web3_connected is false when a
\* ledger lookup raises
GetHealthStatus(Connected) ==
    /\ Idle
    /\ req' = MethodCall("get_health_status")
    /\ \E web3_connected \in Connected :
          result' =
             IF web3_connected
             THEN [ status |-> "healthy", web3_connected |-> TRUE,
                    agent_state |->
                       [ current_risk_threshold |-> current_risk_threshold,
                         learning_enabled |-> enable_learning,
                         trades_processed |-> Len(trade_history) ] ]
             ELSE [ status |-> "unhealthy", web3_connected |-> FALSE ]
    /\ pc' = "done"
    /\ UNCHANGED << ml_result, state, nodes_run, llm_response, calls >>
    /\ UNCHANGED << validator_memory, detector_memory, config, threads, simulation >>

-----------------------------------------------------------------------------
(* simulate_trade.py: one tick of the market simulation.  The simulation     *)
(* holds one validator per stock; the model follows one of them.             *)

\* lines 365-456: the transactions of the execution sequence, in the order
\* they are sent
ExecutionSequence ==
    << "approve_cash", "approve_stock", "initTrade", "approveTrade_buyer",
       "approveTrade_seller", "executeTrade" >>

\* where the try block of lines 362-471 raises: 0 nowhere; k in 1..6 while
\* transaction k is prepared or sent, after the k-1 before it went through;
\* 7 in log_balances, after executeTrade went through and was counted
ExecutionOutcomes == 0..(Len(ExecutionSequence) + 1)

Bump(stats, counter) == [stats EXCEPT ![counter] = @ + 1]

\* display_agentic_analysis and the display_ml_fraud_analysis it calls: the
\* one counter they touch.  result.get('ml_fraud_detection', {}) is empty
\* for an error assessment; 'enabled' is the validator's flag.
DisplayAgenticAnalysis(stats, res, ml_enabled) ==
    IF /\ "ml_fraud_detection" \in DOMAIN res
       /\ ml_enabled
       /\ res.ml_fraud_detection.fraud_detected
    THEN Bump(stats, "ml_fraud_blocked")
    ELSE stats

\* result.get('ml_override', False)
MlOverride(res) == "ml_override" \in DOMAIN res /\ res.ml_override

\* a faulty variant: the agent pipeline's own decision opens the execution
ExecutesTradeOnAgentDecision(res) ==
    "agent_decision" \in DOMAIN res /\ res.agent_decision

\* line 345: the tick goes on to the execution only if result["approved"]
ExecutesTrade(res) == res.approved

\* lines 345-357: the counters of a trade that is not executed
CountRejected(stats, res) ==
    IF MlOverride(res)
    THEN Bump(stats, "rejected_trades")
    ELSE Bump(Bump(stats, "rejected_trades"), "agent_rejected")

\* lines 359-471: the counters of a trade whose execution is attempted
CountExecution(stats, raises_at) ==
    IF raises_at = 0
    THEN Bump(Bump(stats, "approved_trades"), "executed_trades")
    ELSE IF raises_at <= Len(ExecutionSequence)
    THEN Bump(Bump(stats, "approved_trades"), "execution_failures")
    ELSE Bump(Bump(Bump(stats, "approved_trades"), "executed_trades"),
              "execution_failures")

\* the transactions the tick sends for trade number attempt
SentTransactions(attempt, raises_at) ==
    LET n == IF raises_at = 0 \/ raises_at > Len(ExecutionSequence)
             THEN Len(ExecutionSequence) ELSE raises_at - 1
    IN [k \in 1..n |-> [attempt |-> attempt, fn |-> ExecutionSequence[k]]]

\* lines 310-471 after assess_trade returned res: simulation_stats and the
\* ledger's transactions afterwards
AfterAssessment(sim, res, ml_enabled, raises_at) ==
    LET s1 == Bump(sim.stats, "total_attempts")
        s2 == DisplayAgenticAnalysis(s1, res, ml_enabled)
        s3 == IF res.confidence_score > 70
              THEN Bump(s2, "high_confidence_decisions") ELSE s2
    IN IF ~ExecutesTrade(res)
       THEN [ stats |-> CountRejected(s3, res), ledger |-> sim.ledger ]
       ELSE [ stats |-> CountExecution(s3, raises_at),
              ledger |-> sim.ledger
                           \o SentTransactions(s1.total_attempts, raises_at) ]

\* simulate_market_tick: a trade is drawn, the stock's validator assesses
\* it, and an approved trade is executed on the ledger
SimulateMarketTick(limit, Requests, Answers, Outcomes) ==
    /\ CanStart(limit)
    /\ \E r \in Requests, a \in Answers, raises_at \in Outcomes,
          m \in {Memory}, d \in {Detector} :
          \E out \in {AssessTrade(m, d, enable_learning,
                                   enable_ml_fraud_detection, threshold, r, a)} :
             /\ req' = r
             /\ result' = out.result
             /\ ml_result' = out.verdict
             /\ current_risk_threshold' = out.memory.threshold
             /\ trade_history' = out.memory.history
             /\ learned_patterns' = out.memory.patterns
             /\ detection_stats' = out.det.stats
             /\ ml_trade_history' = out.det.trades
             /\ price_history' = out.det.prices
             /\ trader_stats' = out.det.traders
             /\ simulation' = AfterAssessment(simulation, out.result,
                                              enable_ml_fraud_detection, raises_at)
    /\ pc' = "done"
    /\ calls' = calls + 1
    /\ UNCHANGED << state, nodes_run, llm_response, config, threads >>

-----------------------------------------------------------------------------
(* The inputs the behaviours draw from *)

ValidRequests ==
    { Request(AddrA, AddrB, Num(500), Num(10)),
      Request(AddrB, AddrA, Num(200000), Num(10)),
      Request(AddrA, AddrA, Num(1000), Num(0)) }

InvalidRequests ==
    { Request(a, AddrB, Num(500), Num(10)) : a \in BadAddrs }
    \cup { Request(AddrA, a, Num(500), Num(10)) : a \in BadAddrs }
    \cup { Request(AddrA, AddrB, Num(0), Num(0)),
           Request(AddrA, AddrB, Num(0 - 5), Num(10)),
           Request(AddrA, AddrB, Num(500), Num(0 - 1)),
           Request(AddrA, AddrB, NotANumber, Num(10)),
           Request(AddrA, AddrB, Num(500), NotANumber),
           Request(AddrA, AddrB, NoValue, Num(10)),
           Request(AddrA, AddrB, Num(500), NoValue),
           Request(AddrNotHex, AddrB, Num(0), Num(0)) }

Requests == ValidRequests \cup InvalidRequests

\* fraud probabilities the packaged model answers, in hundredths
Probabilities == {3, 15, 60}

PlanItems == { "context_analysis", "balance_check", "risk_assessment",
               "pattern_analysis" }

PlansUpTo(n) == UNION { [1..k -> PlanItems] : k \in 0..n }

PlanAnswer(plan, has_confidence, confidence) ==
    [ kind |-> "parsed", plan |-> plan,
      has_confidence |-> has_confidence, confidence |-> confidence ]

Unparsed == [kind |-> "unparsed"]

Fault == [kind |-> "fault"]

\* planning answers: a few plans, confidences on both sides of 0.5 after the
\* risk stage's +0.1, a confidence above 1, an answer without a confidence
PlanningAnswers ==
    { PlanAnswer(p, TRUE, c) :
         p \in { << >>, << "context_analysis", "balance_check" >> },
         c \in {30, 40, 95, 150} }
    \cup { PlanAnswer(<< "risk_assessment" >>, FALSE, 0), Unparsed, Fault }

\* planning answers with every plan up to MaxPlanLen
AllPlanAnswers ==
    { PlanAnswer(p, TRUE, c) : p \in PlansUpTo(MaxPlanLen), c \in {40, 70} }
    \cup { Unparsed, Fault }

LedgerAnswer(ok, bal_cash, bal_sec) ==
    [ok |-> ok, bal_cash |-> bal_cash, bal_sec |-> bal_sec]

LedgerAnswers ==
    { LedgerAnswer(TRUE, 1000000, 1000), LedgerAnswer(TRUE, 100, 1000),
      LedgerAnswer(TRUE, 1000000, 0), LedgerAnswer(FALSE, 0, 0) }

RiskAnswer(has_risk_level, risk_level, has_recommended, recommended_threshold) ==
    [ kind |-> "parsed", has_risk_level |-> has_risk_level,
      risk_level |-> risk_level, has_recommended |-> has_recommended,
      recommended_threshold |-> recommended_threshold ]

RiskAnswers ==
    { RiskAnswer(TRUE, l, TRUE, 2000) :
         l \in {T_low, T_medium, T_high, T_critical, T_HIGH, T_Critical} }
    \cup { RiskAnswer(TRUE, T_low, FALSE, 0), RiskAnswer(TRUE, T_high, TRUE, 0),
           RiskAnswer(FALSE, T_empty, TRUE, 2000), Unparsed, Fault }

DecisionResponses ==
    { Response("object", d, T_empty, FALSE, FALSE, TRUE) :
         d \in { T_APPROVE, T_approve, T_REJECT, T_reject_padded, T_MANUAL_REVIEW,
                 T_manual_review, T_APPROVED, T_NOT_APPROVED, T_HOLD, T_empty } }
    \cup { Response("object", T_HOLD, T_empty, TRUE, FALSE, TRUE),
           Response("object", T_APPROVE, T_empty, TRUE, FALSE, FALSE) }
    \cup { Response("text", T_empty, b, FALSE, FALSE, TRUE) :
              b \in { T_APPROVE, T_approve, T_REJECT, T_MANUAL_REVIEW, T_empty } }
    \cup { Response("text", T_empty, T_empty, ha, hr, TRUE) :
              ha \in BOOLEAN, hr \in BOOLEAN }
    \cup { Fault }

-----------------------------------------------------------------------------
(* Specifications *)

\* Spec: up to MaxCalls assess_trade calls on one validator, each collaborator
\* answering from a short list
FewPlanningAnswers ==
    { PlanAnswer(<< "context_analysis" >>, TRUE, 30), Unparsed }

FewLedgerAnswers == { LedgerAnswer(TRUE, 1000000, 1000), LedgerAnswer(FALSE, 0, 0) }

FewRiskAnswers == { RiskAnswer(TRUE, T_low, TRUE, 2000), RiskAnswer(TRUE, T_HIGH, FALSE, 0) }

FewDecisionResponses ==
    { Response("object", T_APPROVE, T_empty, FALSE, FALSE, TRUE),
      Response("text", T_empty, T_empty, FALSE, TRUE, TRUE),
      Fault }

Init == InitWith({1000}, BOOLEAN, BOOLEAN, {50})

Next ==
    \/ RejectInvalid(MaxCalls, Requests)
    \/ BeginAssessment(MaxCalls, Requests, BOOLEAN, {3, 60}, {TRUE})
    \/ AgentPlanning(FewPlanningAnswers)
    \/ ContextGathering
    \/ EnhancedBalance(FewLedgerAnswers)
    \/ IntelligentRisk(FewRiskAnswers)
    \/ AgentDecision(FewDecisionResponses)
    \/ CompleteAssessment

Spec == Init /\ [][Next]_vars

\* SpecPipeline: one assess_trade call on a fresh validator, every
\* collaborator answering from its full list
InitPipeline == InitWith({1000}, {TRUE}, BOOLEAN, {50})

NextPipeline ==
    \/ RejectInvalid(1, Requests)
    \/ BeginAssessment(1, Requests, BOOLEAN, Probabilities, BOOLEAN)
    \/ AgentPlanning(PlanningAnswers)
    \/ ContextGathering
    \/ EnhancedBalance(LedgerAnswers)
    \/ IntelligentRisk(RiskAnswers)
    \/ AgentDecision(DecisionResponses)
    \/ CompleteAssessment

SpecPipeline == InitPipeline /\ [][NextPipeline]_vars

\* SpecPlans: one assess_trade call, the planning reasoner returning every
\* plan of up to MaxPlanLen entries
InitPlans == InitWith({1000}, {TRUE}, {TRUE}, {50})

NextPlans ==
    \/ RejectInvalid(1, Requests)
    \/ BeginAssessment(1, Requests, {TRUE}, {3}, {TRUE})
    \/ AgentPlanning(AllPlanAnswers)
    \/ ContextGathering
    \/ EnhancedBalance(FewLedgerAnswers)
    \/ IntelligentRisk(FewRiskAnswers)
    \/ AgentDecision(FewDecisionResponses)
    \/ CompleteAssessment

SpecPlans == InitPlans /\ [][NextPlans]_vars

\* SpecPlansFair: SpecPlans with the interpreter going on: graph.invoke runs
\* the nodes one after the other on the caller's thread, so a started run
\* does not stop before a node that is due
GraphStepPlans ==
    \/ AgentPlanning(AllPlanAnswers)
    \/ ContextGathering
    \/ EnhancedBalance(FewLedgerAnswers)
    \/ IntelligentRisk(FewRiskAnswers)
    \/ AgentDecision(FewDecisionResponses)

SpecPlansFair == SpecPlans /\ WF_vars(GraphStepPlans)

\* SpecEviction: up to MaxCalls calls on a learning validator that has
\* already recorded 998, 999 or 1000 trades; earlier record i is a rejected
\* trade of cash amount i
EarlierRecord(i) ==
    [ required_cash |-> i, required_sec |-> 7, approved |-> FALSE,
      confidence_score |-> 60, risk_level |-> T_low ]

EarlierHistory(n) == [i \in 1..n |-> EarlierRecord(i)]

EvictionRequests ==
    { Request(AddrA, AddrB, Num(500), Num(10)),
      Request(AddrA, AddrB, Num(0), Num(0)) }

\* the threshold of a validator constructed with the default
\* initial_risk_threshold: int(10**21 / 10**18)
DEFAULT_RISK_THRESHOLD == 1000

\* a learning validator, without classifier, that has recorded the rejected
\* trades of one of Histories
RecordedValidator(Histories) ==
    /\ current_risk_threshold = DEFAULT_RISK_THRESHOLD
    /\ \E h \in Histories :
          /\ trade_history = h
          /\ learned_patterns = [EmptyPatterns EXCEPT !.rejected_trades = h]
    /\ enable_learning = TRUE
    /\ enable_ml_fraud_detection = FALSE
    /\ detection_stats = EmptyStats
    /\ ml_trade_history = << >>
    /\ price_history = << >>
    /\ trader_stats = << >>
    /\ threshold = 50
    /\ pc = "idle"
    /\ req = NoRequest
    /\ ml_result = NoMlResult
    /\ state = NoState
    /\ nodes_run = << >>
    /\ llm_response = NoResponse
    /\ result = NoResult
    /\ calls = 0

InitRecorded(Histories) == RecordedValidator(Histories) /\ threads = NoThreads /\ simulation = NoSimulation

InitEviction ==
    InitRecorded({ EarlierHistory(n) :
                      n \in (TRADE_HISTORY_LIMIT - 2) .. TRADE_HISTORY_LIMIT })

NextEviction ==
    \/ RejectInvalid(MaxCalls, EvictionRequests)
    \/ BeginAssessment(MaxCalls, EvictionRequests, {TRUE}, {3}, {TRUE})
    \/ AgentPlanning(FewPlanningAnswers)
    \/ ContextGathering
    \/ EnhancedBalance(FewLedgerAnswers)
    \/ IntelligentRisk(FewRiskAnswers)
    \/ AgentDecision(FewDecisionResponses)
    \/ CompleteAssessment

SpecEviction == InitEviction /\ [][NextEviction]_vars

\* SpecSimilar: one _get_similar_trades query against a recorded history:
\* every history of up to MaxHistoryLen records of four kinds, and histories
\* in which one matching record is followed by 49 or 50 others
StoredTrade(cash, sec) ==
    [ required_cash |-> cash, required_sec |-> sec, approved |-> FALSE,
      confidence_score |-> 60, risk_level |-> T_low ]

StoredKinds ==
    { StoredTrade(1150, 10), StoredTrade(1250, 10),
      StoredTrade(1100, 13), StoredTrade(900, 11) }

ShortHistories == UNION { [1..n -> StoredKinds] : n \in 0..MaxHistoryLen }

LongHistories ==
    { << StoredTrade(1150, 10) >> \o EarlierHistory(n) :
         n \in (SIMILAR_WINDOW - 1) .. SIMILAR_WINDOW }

SimilarQueries ==
    { Request(AddrA, AddrB, Num(1000), Num(10)),
      Request(AddrA, AddrB, Num(1200), Num(12)) }

SimilarLimits == { 2, DEFAULT_LIMIT }

\* _get_similar_trades(required_cash, required_sec, limit) is called and
\* returns
GetSimilarTradesCall(Queries, Limits) ==
    /\ Idle
    /\ \E q \in Queries, limit \in Limits :
          /\ req' = q
          /\ result' = [ similar_trades |->
                             GetSimilarTrades(trade_history, q.required_cash.val,
                                              q.required_sec.val, limit),
                         limit |-> limit ]
    /\ pc' = "done"
    /\ UNCHANGED << ml_result, state, nodes_run, llm_response, calls >>
    /\ UNCHANGED << validator_memory, detector_memory, config, threads, simulation >>

InitSimilar == InitRecorded(ShortHistories \cup LongHistories)

NextSimilar == GetSimilarTradesCall(SimilarQueries, SimilarLimits)

SpecSimilar == InitSimilar /\ [][NextSimilar]_vars

\* SpecRacingLearners: NumThreads assess_trade calls on one learning
\* validator have each built their comprehensive_result and run
\* _update_learning at the same time.  No lock is taken anywhere in
\* trade_agent.py, so the threads interleave between the statements' reads
\* and writes of the shared fields.
Threads == 1..NumThreads

LearnerResult(cash, recommended_threshold) ==
    [ approved |-> TRUE, confidence_score |-> 80, risk_assessment |-> T_low,
      trade_details |-> [ required_cash |-> cash, required_sec |-> 10,
                          current_risk_threshold |-> DEFAULT_RISK_THRESHOLD ],
      recommended_threshold |-> recommended_threshold ]

LearnerRecommendations == {0, 2000, 3000}

\* thread t has the result of a completed trade of cash amount 5000 + t
LearnerStarts ==
    { th \in [Threads -> [ pc : {"append_history"},
                           res : { LearnerResult(5000 + t, r) :
                                      t \in Threads, r \in LearnerRecommendations },
                           old_threshold : {0},
                           slice : {<< >>} ]] :
         \A t \in Threads : th[t].res.trade_details.required_cash = 5000 + t }

\* line 204: self.trade_history.append(trade_record)
LearnAppendHistory(t) ==
    /\ threads[t].pc = "append_history"
    /\ trade_history' = Append(trade_history, TradeRecord(threads[t].res))
    /\ threads' = [threads EXCEPT ![t].pc = "append_pattern"]
    /\ UNCHANGED << current_risk_threshold, learned_patterns >>
    /\ UNCHANGED << pc, call_locals, calls, simulation, detector_memory, config >>

\* lines 207-213: the record joins approved_trades or rejected_trades; the
\* threshold is adapted only for a truthy recommended_threshold
LearnAppendPattern(t) ==
    /\ threads[t].pc = "append_pattern"
    /\ learned_patterns' =
          IF threads[t].res.approved
          THEN [learned_patterns EXCEPT
                  !.approved_trades = Append(@, TradeRecord(threads[t].res))]
          ELSE [learned_patterns EXCEPT
                  !.rejected_trades = Append(@, TradeRecord(threads[t].res))]
    /\ threads' = [threads EXCEPT
                     ![t].pc = IF threads[t].res.recommended_threshold # 0
                               THEN "read_threshold" ELSE "check_length"]
    /\ UNCHANGED << current_risk_threshold, trade_history >>
    /\ UNCHANGED << pc, call_locals, calls, simulation, detector_memory, config >>

\* line 215: old_threshold = self.current_risk_threshold
LearnReadThreshold(t) ==
    /\ threads[t].pc = "read_threshold"
    /\ threads' = [threads EXCEPT ![t].pc = "write_threshold",
                                  ![t].old_threshold = current_risk_threshold]
    /\ UNCHANGED validator_memory
    /\ UNCHANGED << pc, call_locals, calls, simulation, detector_memory, config >>

\* lines 216-218: self.current_risk_threshold = int(old * 0.7 + new * 0.3)
LearnWriteThreshold(t) ==
    /\ threads[t].pc = "write_threshold"
    /\ current_risk_threshold' =
          SmoothedThreshold(threads[t].old_threshold,
                            threads[t].res.recommended_threshold)
    /\ threads' = [threads EXCEPT ![t].pc = "append_adjustment"]
    /\ UNCHANGED << trade_history, learned_patterns >>
    /\ UNCHANGED << pc, call_locals, calls, simulation, detector_memory, config >>

\* lines 219-224: risk_adjustments.append({... "new_threshold":
\* self.current_risk_threshold ...})
LearnAppendAdjustment(t) ==
    /\ threads[t].pc = "append_adjustment"
    /\ learned_patterns' =
          [learned_patterns EXCEPT !.risk_adjustments =
              Append(@, [ old_threshold |-> threads[t].old_threshold,
                          new_threshold |-> current_risk_threshold ])]
    /\ threads' = [threads EXCEPT ![t].pc = "check_length"]
    /\ UNCHANGED << current_risk_threshold, trade_history >>
    /\ UNCHANGED << pc, call_locals, calls, simulation, detector_memory, config >>

\* line 230: if len(self.trade_history) > 1000
LearnCheckLength(t) ==
    /\ threads[t].pc = "check_length"
    /\ threads' = [threads EXCEPT
                     ![t].pc = IF Len(trade_history) > TRADE_HISTORY_LIMIT
                               THEN "slice" ELSE "returned"]
    /\ UNCHANGED validator_memory
    /\ UNCHANGED << pc, call_locals, calls, simulation, detector_memory, config >>

\* line 231, right-hand side: self.trade_history[-1000:] builds a new list
LearnSlice(t) ==
    /\ threads[t].pc = "slice"
    /\ threads' = [threads EXCEPT ![t].pc = "store",
                                  ![t].slice = TrimHistory(trade_history)]
    /\ UNCHANGED validator_memory
    /\ UNCHANGED << pc, call_locals, calls, simulation, detector_memory, config >>

\* line 231, assignment: self.trade_history is rebound to the new list
LearnStore(t) ==
    /\ threads[t].pc = "store"
    /\ trade_history' = threads[t].slice
    /\ threads' = [threads EXCEPT ![t].pc = "returned", ![t].slice = << >>]
    /\ UNCHANGED << current_risk_threshold, learned_patterns >>
    /\ UNCHANGED << pc, call_locals, calls, simulation, detector_memory, config >>

InitRacingLearners ==
    /\ RecordedValidator({ EarlierHistory(n) :
           n \in (TRADE_HISTORY_LIMIT - 1) .. TRADE_HISTORY_LIMIT })
    /\ threads \in LearnerStarts /\ simulation = NoSimulation

NextRacingLearners ==
    \E t \in Threads :
       \/ LearnAppendHistory(t)
       \/ LearnAppendPattern(t)
       \/ LearnReadThreshold(t)
       \/ LearnWriteThreshold(t)
       \/ LearnAppendAdjustment(t)
       \/ LearnCheckLength(t)
       \/ LearnSlice(t)
       \/ LearnStore(t)

SpecRacingLearners == InitRacingLearners /\ [][NextRacingLearners]_vars

\* SpecRacingPredictors: NumThreads predict_fraud calls run at the same time
\* on one detector.  ml_fraud_detector.py takes no lock; a statement
\* self.detection_stats[k] += 1 reads the counter and writes it back, and
\* another thread can run in between.
PredictorTrades ==
    { [ token |-> "GENERIC", buyer_id |-> "A", seller_id |-> "B",
        trade_size |-> 10, trade_price |-> price, market_price |-> price ] :
         price \in {0, 50} }

PredictorStarts ==
    [Threads -> [ pc : {"read_counter"}, counter : {"total_checks"}, tmp : {0},
                  trade : PredictorTrades, level : {"UNKNOWN"},
                  fraud : {FALSE} ]]

\* the counter predict_fraud increments for a risk level (lines 284-295)
LevelCounter(level) ==
    CASE level \in {"CRITICAL", "HIGH"} -> "high_risk"
      [] level = "MEDIUM" -> "medium_risk"
      [] OTHER -> "low_risk"

\* self.detection_stats[counter] += 1, first half: the value is read
PredictReadCounter(t) ==
    /\ threads[t].pc = "read_counter"
    /\ threads' = [threads EXCEPT
                     ![t].pc = "write_counter",
                     ![t].tmp = detection_stats[threads[t].counter]]
    /\ UNCHANGED << pc, call_locals, calls, simulation, validator_memory, detector_memory,
                    config >>

\* self.detection_stats[counter] += 1, second half: value + 1 is stored.
\* After total_checks comes extract_features (line 258); after the level's
\* counter comes fraud_detected when the verdict is fraud (line 300), else
\* the return.
PredictWriteCounter(t) ==
    /\ threads[t].pc = "write_counter"
    /\ detection_stats' =
          [detection_stats EXCEPT ![threads[t].counter] = threads[t].tmp + 1]
    /\ threads' =
          [threads EXCEPT
             ![t].pc = IF threads[t].counter = "total_checks" THEN "extract"
                       ELSE IF threads[t].counter # "fraud_detected"
                               /\ threads[t].fraud THEN "read_counter"
                       ELSE "returned",
             ![t].counter = IF threads[t].counter \notin
                                  {"total_checks", "fraud_detected"}
                               /\ threads[t].fraud
                            THEN "fraud_detected" ELSE @]
    /\ UNCHANGED << ml_trade_history, price_history, trader_stats >>
    /\ UNCHANGED << pc, call_locals, calls, simulation, validator_memory, config >>

\* lines 258-270: extract_features; None makes predict_fraud return UNKNOWN
PredictExtract(t) ==
    /\ threads[t].pc = "extract"
    /\ LET ex == ExtractFeatures(Detector, threads[t].trade)
       IN /\ ml_trade_history' = ex.det.trades
          /\ price_history' = ex.det.prices
          /\ trader_stats' = ex.det.traders
          /\ threads' = [threads EXCEPT
                           ![t].pc = IF ex.ok THEN "model" ELSE "returned"]
    /\ UNCHANGED detection_stats
    /\ UNCHANGED << pc, call_locals, calls, simulation, validator_memory, config >>

\* lines 272-295: the model answers (or raises, and UNKNOWN is returned), the
\* verdict and the risk level are computed
PredictModel(t, Answers, ModelOk) ==
    /\ threads[t].pc = "model"
    /\ \E fraud_probability \in Answers, model_ok \in ModelOk :
          threads' =
             IF ~model_ok THEN [threads EXCEPT ![t].pc = "returned"]
             ELSE [threads EXCEPT
                     ![t].pc = "read_counter",
                     ![t].level = RiskLevelOf(fraud_probability),
                     ![t].fraud = IsFraudulent(fraud_probability, threshold),
                     ![t].counter = LevelCounter(RiskLevelOf(fraud_probability))]
    /\ UNCHANGED << pc, call_locals, calls, simulation, validator_memory, detector_memory,
                    config >>

InitRacingPredictors ==
    /\ FreshValidator({DEFAULT_RISK_THRESHOLD}, {TRUE}, {TRUE}, {50})
    /\ threads \in PredictorStarts /\ simulation = NoSimulation

NextRacingPredictors ==
    \E t \in Threads :
       \/ PredictReadCounter(t)
       \/ PredictWriteCounter(t)
       \/ PredictExtract(t)
       \/ PredictModel(t, Probabilities \cup {30}, BOOLEAN)

SpecRacingPredictors == InitRacingPredictors /\ [][NextRacingPredictors]_vars

\* SpecLearning: up to MaxCalls calls on validators that start from several
\* thresholds, the risk reasoner recommending several thresholds or none
LearningThresholds == {23, 1000, 1001}

LearningRiskAnswers ==
    { RiskAnswer(TRUE, T_low, TRUE, 2000), RiskAnswer(TRUE, T_low, TRUE, 2001),
      RiskAnswer(TRUE, T_low, TRUE, 0), RiskAnswer(TRUE, T_HIGH, FALSE, 0) }

InitLearning == InitWith(LearningThresholds, BOOLEAN, {FALSE}, {50})

NextLearning ==
    \/ RejectInvalid(MaxCalls, Requests)
    \/ BeginAssessment(MaxCalls, ValidRequests, {TRUE}, {3}, {TRUE})
    \/ AgentPlanning(FewPlanningAnswers)
    \/ ContextGathering
    \/ EnhancedBalance(FewLedgerAnswers)
    \/ IntelligentRisk(LearningRiskAnswers)
    \/ AgentDecision(FewDecisionResponses)
    \/ CompleteAssessment

SpecLearning == InitLearning /\ [][NextLearning]_vars

-----------------------------------------------------------------------------
(* predict_fraud called directly on a detector that has already seen trades *)

MaxPredictions == 2

\* trade i of n earlier trades, the last k of them between A and B: the
\* first trade is A buying from B, the other early ones C buying from D.
\* The prices are all 50, or alternate between 50 and 100.
SeenTrade(i, n, k, alternating) ==
    [ buyer |-> IF i = 1 \/ i > n - k THEN "A" ELSE "C",
      seller |-> IF i = 1 \/ i > n - k THEN "B" ELSE "D",
      size |-> 10,
      price |-> IF alternating /\ i % 2 = 0 THEN 100 ELSE 50 ]

\* the detector after n predict_fraud calls for those trades, each of which
\* the model answered with a probability below 0.1
SeenDetector(n, k, alternating) ==
    LET trades == [i \in 1..n |-> SeenTrade(i, n, k, alternating)]
        kept == Min(n, PRICE_HISTORY_MAXLEN)
        traders == { t \in {"A", "B", "C", "D"} :
                       \E i \in 1..n : trades[i].buyer = t \/ trades[i].seller = t }
    IN [ stats |-> [EmptyStats EXCEPT !.total_checks = n, !.low_risk = n],
         trades |-> trades,
         prices |-> IF n = 0 THEN << >>
                    ELSE [t \in {"GENERIC"} |->
                            [j \in 1..kept |-> trades[n - kept + j].price]],
         traders |-> [t \in traders |->
                        Cardinality({ i \in 1..n : trades[i].buyer = t
                                                   \/ trades[i].seller = t })] ]

SeenDetectors ==
    { SeenDetector(0, 0, FALSE) }
    \cup { SeenDetector(21, k, alt) : k \in {0, 10, 11}, alt \in BOOLEAN }
    \cup { SeenDetector(n, 0, FALSE) : n \in {99, 100, 101, 999, 1000} }

\* a validator whose detector has seen trades
LoadedDetector(Detectors, MlThresholds) ==
    /\ current_risk_threshold = DEFAULT_RISK_THRESHOLD
    /\ trade_history = << >>
    /\ learned_patterns = EmptyPatterns
    /\ enable_learning = TRUE
    /\ enable_ml_fraud_detection = TRUE
    /\ \E d \in Detectors :
          /\ detection_stats = d.stats
          /\ ml_trade_history = d.trades
          /\ price_history = d.prices
          /\ trader_stats = d.traders
    /\ threshold \in MlThresholds
    /\ pc = "idle"
    /\ req = NoRequest
    /\ ml_result = NoMlResult
    /\ state = NoState
    /\ nodes_run = << >>
    /\ llm_response = NoResponse
    /\ result = NoResult
    /\ calls = 0
    /\ threads = NoThreads /\ simulation = NoSimulation

\* trade_data handed to predict_fraud
DetectorTrades ==
    { [ token |-> "GENERIC", buyer_id |-> pair[1], seller_id |-> pair[2],
        trade_size |-> 10, trade_price |-> price[1], market_price |-> price[2] ] :
        pair \in { << "A", "B" >>, << "B", "A" >>, << "A", "C" >>, << "C", "B" >> },
        price \in { << 50, 50 >>, << 50, 48 >>, << 60, 50 >>, << 0, 50 >>,
                    << 60, 0 >> } }

\* MLFraudDetector.predict_fraud as one call; req holds the call's trade_data
\* and ml_result what it returned
PredictFraudCall(limit, Trades, Answers, ModelOk) ==
    /\ pc = "idle"
    /\ calls < limit
    /\ \E trade \in Trades, fraud_probability \in Answers, model_ok \in ModelOk :
          LET out == PredictFraud(Detector, trade, fraud_probability, model_ok,
                                  threshold)
          IN /\ req' = trade
             /\ ml_result' = out.verdict
             /\ detection_stats' = out.det.stats
             /\ ml_trade_history' = out.det.trades
             /\ price_history' = out.det.prices
             /\ trader_stats' = out.det.traders
    /\ calls' = calls + 1
    /\ UNCHANGED << pc, state, nodes_run, llm_response, result, validator_memory,
                    config, threads, simulation >>

InitExtraction == LoadedDetector(SeenDetectors, {50})

NextExtraction == PredictFraudCall(MaxPredictions, DetectorTrades, {3}, {TRUE})

SpecExtraction == InitExtraction /\ [][NextExtraction]_vars

\* the model's answers on both sides of every cut point, in hundredths
VerdictAnswers == {3, 9, 10, 15, 19, 20, 30, 49, 50, 60}

VerdictThresholds == {15, 50, 70}

VerdictTrades == { t \in DetectorTrades : t.buyer_id = "A" /\ t.seller_id = "B"
                                            /\ t.market_price = 50
                                            /\ t.trade_price \in {0, 50} }

InitVerdict == LoadedDetector({SeenDetector(0, 0, FALSE)}, VerdictThresholds)

NextVerdict ==
    PredictFraudCall(MaxPredictions, VerdictTrades, VerdictAnswers, BOOLEAN)

SpecVerdict == InitVerdict /\ [][NextVerdict]_vars

-----------------------------------------------------------------------------
(* assess_trade with a classifier that is disabled, cannot read the ledger, *)
(* cannot extract features or fails to predict                               *)

ClassifierRequests ==
    { Request(AddrA, AddrB, Num(500), Num(10)),
      Request(AddrA, AddrA, Num(1000), Num(0)),
      Request(AddrA, AddrB, Num(0), Num(0)) }

ClassifierDecisions ==
    { Response("object", T_APPROVE, T_empty, FALSE, FALSE, TRUE),
      Response("object", T_REJECT, T_empty, FALSE, FALSE, TRUE),
      Fault }

InitClassifier == InitWith({1000}, {FALSE}, BOOLEAN, {50})

NextClassifier ==
    \/ RejectInvalid(MaxCalls, ClassifierRequests)
    \/ BeginAssessment(MaxCalls, ClassifierRequests, BOOLEAN, {3, 60}, BOOLEAN)
    \/ AgentPlanning({PlanAnswer(<< "context_analysis" >>, TRUE, 70)})
    \/ ContextGathering
    \/ EnhancedBalance({LedgerAnswer(TRUE, 1000000, 1000), LedgerAnswer(TRUE, 100, 1000)})
    \/ IntelligentRisk({RiskAnswer(TRUE, T_low, TRUE, 2000),
                        RiskAnswer(TRUE, T_HIGH, FALSE, 0)})
    \/ AgentDecision(ClassifierDecisions)
    \/ CompleteAssessment

SpecClassifier == InitClassifier /\ [][NextClassifier]_vars

-----------------------------------------------------------------------------
(* assess_trade when the risk reasoner's answer never parses: the risk level *)
(* is the one adaptive_risk_assessment computes itself                        *)

RiskFallbackThresholds == {23, 1000}

InitRiskFallback == InitWith(RiskFallbackThresholds, {TRUE}, {FALSE}, {50})

NextRiskFallback ==
    \/ RejectInvalid(MaxCalls, Requests)
    \/ BeginAssessment(MaxCalls, ValidRequests, {TRUE}, {3}, {TRUE})
    \/ AgentPlanning(FewPlanningAnswers)
    \/ ContextGathering
    \/ EnhancedBalance(FewLedgerAnswers)
    \/ IntelligentRisk({Unparsed})
    \/ AgentDecision(FewDecisionResponses)
    \/ CompleteAssessment

SpecRiskFallback == InitRiskFallback /\ [][NextRiskFallback]_vars

-----------------------------------------------------------------------------
(* assess_multiple_trades on a fresh validator *)

MaxBatch == 2

BatchItems ==
    { Request(AddrA, AddrB, Num(500), Num(10)),
      Request(AddrB, AddrA, Num(200000), Num(10)),
      Request(AddrA, AddrB, Num(0), Num(0)),
      MissingKey }

Batches == UNION { [1..n -> BatchItems] : n \in 0..MaxBatch }

BatchAnswers ==
    { CallAnswers(TRUE, p, TRUE,
                  PlanAnswer(<< "context_analysis" >>, TRUE, 70),
                  LedgerAnswer(TRUE, 1000000, 1000),
                  RiskAnswer(TRUE, T_low, TRUE, 2000), decision) :
        p \in {3, 60},
        decision \in { Response("object", T_APPROVE, T_empty, FALSE, FALSE, TRUE),
                       Fault } }

InitBatch == InitWith({1000}, BOOLEAN, BOOLEAN, {50})

NextBatch == AssessMultipleTrades(1, Batches, BatchAnswers)

SpecBatch == InitBatch /\ [][NextBatch]_vars

-----------------------------------------------------------------------------
(* assess_trade called again with the same arguments *)

RepeatRequests ==
    { Request(AddrA, AddrB, Num(500), Num(10)),
      Request(AddrA, AddrB, Num(0), Num(0)) }

RepeatAnswers ==
    { CallAnswers(TRUE, p, TRUE,
                  PlanAnswer(<< "context_analysis" >>, TRUE, 70),
                  LedgerAnswer(TRUE, 1000000, 1000), risk, decision) :
        p \in {3, 60},
        risk \in { RiskAnswer(TRUE, T_low, TRUE, 2000),
                   RiskAnswer(TRUE, T_HIGH, FALSE, 0) },
        decision \in ClassifierDecisions }

InitRepeat == InitWith({1000}, {TRUE}, BOOLEAN, {50})

NextRepeat ==
    \/ AssessTradeCall(MaxCalls, RepeatRequests, RepeatAnswers)
    \/ SameStateAgain

SpecRepeat == InitRepeat /\ [][NextRepeat]_vars


\* SpecOperator: up to MaxCalls assess_trade calls on a learning validator,
\* with reset_learning, get_agent_memory and get_health_status called
\* between them
InitOperator == InitWith({1000}, {TRUE}, {FALSE}, {50})

NextOperator ==
    \/ RejectInvalid(MaxCalls, EvictionRequests)
    \/ BeginAssessment(MaxCalls, EvictionRequests, {TRUE}, {3}, {TRUE})
    \/ AgentPlanning(FewPlanningAnswers)
    \/ ContextGathering
    \/ EnhancedBalance(FewLedgerAnswers)
    \/ IntelligentRisk(FewRiskAnswers)
    \/ AgentDecision(FewDecisionResponses)
    \/ CompleteAssessment
    \/ ResetLearning
    \/ GetAgentMemory
    \/ GetHealthStatus(BOOLEAN)

SpecOperator == InitOperator /\ [][NextOperator]_vars

\* SpecSimulation: up to MaxTicks ticks of the market simulation on one
\* stock's validator, constructed as simulate_trade.py constructs it
\* (learning on, default threshold; the classifier may fail to load)
MaxTicks == 2

SimulationRequests ==
    { Request(AddrA, AddrB, Num(500), Num(10)),
      Request(AddrB, AddrA, Num(200000), Num(10)) }

SimulationAnswers ==
    { CallAnswers(TRUE, p, TRUE, plan,
                  LedgerAnswer(TRUE, 1000000, 1000),
                  RiskAnswer(TRUE, T_low, TRUE, 2000), decision) :
        p \in {3, 60},
        plan \in { PlanAnswer(<< "context_analysis" >>, TRUE, 70),
                   PlanAnswer(<< >>, TRUE, 30) },
        decision \in { Response("object", T_APPROVE, T_empty, FALSE, FALSE, TRUE),
                       Response("object", T_REJECT, T_empty, FALSE, FALSE, TRUE),
                       Fault } }

InitSimulation == InitWith({1000}, {TRUE}, BOOLEAN, {50})

NextSimulation ==
    SimulateMarketTick(MaxTicks, SimulationRequests, SimulationAnswers,
                       ExecutionOutcomes)

SpecSimulation == InitSimulation /\ [][NextSimulation]_vars

\* SpecFrozen: up to MaxCalls assess_trade or assess_multiple_trades calls
\* on a validator constructed with enable_learning = False, and
\* _get_similar_trades queries between them
FrozenQueries == { Request(AddrA, AddrB, Num(500), Num(10)) }

InitFrozen == InitWith({1000}, {FALSE}, BOOLEAN, {50})

FrozenBatches ==
    UNION { [1..n -> FrozenQueries \cup {MissingKey}] : n \in 0..MaxBatch }

FrozenAnswers ==
    { CallAnswers(TRUE, 3, TRUE,
                  PlanAnswer(<< "context_analysis" >>, TRUE, 70),
                  LedgerAnswer(TRUE, 1000000, 1000),
                  RiskAnswer(TRUE, T_low, TRUE, 2000), decision) :
        decision \in { Response("object", T_APPROVE, T_empty, FALSE, FALSE, TRUE),
                       Response("object", T_REJECT, T_empty, FALSE, FALSE, TRUE),
                       Fault } }

NextFrozen ==
    \/ AssessTradeCall(MaxCalls, FrozenQueries, FrozenAnswers)
    \/ AssessMultipleTrades(MaxCalls, FrozenBatches, FrozenAnswers)
    \/ GetSimilarTradesCall(FrozenQueries, {DEFAULT_LIMIT})

SpecFrozen == InitFrozen /\ [][NextFrozen]_vars

-----------------------------------------------------------------------------
(* Properties *)

Count(seq, x) == Cardinality({i \in 1..Len(seq) : seq[i] = x})

\* the call returned an assessment built from a completed DECISION stage
DecisionCompleted == pc = "done" /\ result.final_decision # "error"

T_CRITICAL == << "C","R","I","T","I","C","A","L" >>
T_LOW == << "L","O","W" >>

HighOrCritical(risk) == Upper(risk) \in {T_HIGH, T_CRITICAL}

\* C1: when the fraud classifier returned is_fraudulent = true, the returned
\* assessment is not approved, and if the agent pipeline itself approved the
\* trade the assessment carries ml_override = true.
C1_FraudVerdictOverrides ==
    (pc = "done" /\ ml_result.is_fraudulent) =>
        /\ result.approved = FALSE
        /\ ("agent_decision" \in DOMAIN result /\ result.agent_decision)
              => result.ml_override

\* C1's case: balance sufficient, the reasoner said APPROVE and the pipeline
\* approved, the classifier flagged fraud
C1_Witness ==
    /\ pc = "done" /\ ml_result.is_fraudulent
    /\ DecisionCompleted
    /\ state.balance = "sufficient"
    /\ state.llm_decision_raw = T_APPROVE
    /\ result.agent_decision /\ result.ml_override /\ ~result.approved

\* C2: when the BALANCE stage recorded 'insufficient', the returned assessment
\* is not approved, whatever the classifier and the reasoner said.
C2_InsufficientBalanceRejected ==
    (pc = "done" /\ state.balance = "insufficient") => result.approved = FALSE

\* C3: when the balance lookup failed (status 'error'), the returned assessment
\* is not approved, whatever the reasoner recommended.
C3_BalanceErrorRejected ==
    (pc = "done" /\ state.balance = "error") => result.approved = FALSE

\* C4: a valid trade with sufficient balance, risk level LOW and no fraud
\* verdict is returned approved = true with ml_override = false.  Stated for
\* completed assessments that the classifier scored LOW and whose pipeline
\* confidence is at least 0.5, where no override the specification itself
\* asks for applies.
C4_CleanTradeApproved ==
    ( /\ DecisionCompleted
      /\ state.balance = "sufficient"
      /\ Upper(state.risk_assessment) = T_LOW
      /\ ml_result.risk_level = "LOW" /\ ~ml_result.is_fraudulent
      /\ state.confidence_score >= 50 )
    => (result.approved = TRUE /\ result.ml_override = FALSE)

\* C5: when the risk level is HIGH or CRITICAL at DECISION, the assessment is
\* not approved, even when the reasoner recommends APPROVE.
C5_HighRiskRejected ==
    HighOrCritical(state.risk_assessment) =>
        /\ state.approved = FALSE
        /\ pc = "done" => result.approved = FALSE

C5_Witness ==
    /\ DecisionCompleted
    /\ state.risk_assessment = T_HIGH
    /\ state.llm_decision_raw = T_APPROVE
    /\ state.confidence_score >= 50
    /\ state.balance = "sufficient"
    /\ ~ml_result.is_fraudulent
    /\ result.final_decision = "rejected"

\* C6: when the pipeline confidence_score is below 0.5 at DECISION, the
\* assessment is not approved, even when the reasoner recommends APPROVE.
C6_LowConfidenceRejected ==
    (pc \in {"combine", "done"} /\ state.confidence_score < 50) =>
        /\ state.approved = FALSE
        /\ pc = "done" => result.approved = FALSE

C6_Witness ==
    /\ DecisionCompleted
    /\ state.confidence_score < 50
    /\ state.llm_decision_raw = T_APPROVE
    /\ state.risk_assessment = T_low
    /\ state.balance = "sufficient"
    /\ ~ml_result.is_fraudulent
    /\ result.final_decision = "rejected"

\* C7: in every run that reaches DECISION, BALANCE and RISK have each been
\* executed exactly once and CONTEXT at most once, for every plan.
C7_StagesRunOnce ==
    (pc = "agent_decision" \/ Member(nodes_run, "agent_decision")) =>
        /\ Count(nodes_run, "enhanced_balance") = 1
        /\ Count(nodes_run, "intelligent_risk") = 1
        /\ Count(nodes_run, "context_gathering") <= 1
        /\ Count(nodes_run, "agent_planning") = 1

\* C7's case: a plan that names risk twice and balance never
C7_Witness ==
    /\ pc = "agent_decision"
    /\ state.investigation_plan = << "risk_assessment", "risk_assessment" >>
    /\ nodes_run = << "agent_planning", "enhanced_balance", "intelligent_risk" >>

\* C8: when the reasoner's extracted decision is MANUAL_REVIEW, the returned
\* assessment has approved = false and final_decision = 'manual_review'.
C8_ManualReviewReturned ==
    (DecisionCompleted /\ state.llm_decision_raw = T_MANUAL_REVIEW) =>
        (result.approved = FALSE /\ result.final_decision = "manual_review")

\* what the deterministic checks alone decide: balance, risk level, classifier
DeterministicApproval ==
    /\ state.balance = "sufficient"
    /\ ~HighOrCritical(state.risk_assessment)
    /\ ~ml_result.is_fraudulent

Unparseable(resp) ==
    /\ resp.kind = "text" /\ resp.block = T_empty
    /\ ~resp.head_approve /\ ~resp.head_reject

\* C9: when the reasoner's output cannot be parsed and holds no APPROVE/REJECT
\* keyword, the final decision is the one the deterministic checks produce.
\* Stated for pipeline confidence of at least 0.5.
C9_UnparseableFallsBackToRules ==
    ( /\ DecisionCompleted
      /\ Unparseable(llm_response)
      /\ state.confidence_score >= 50 )
    => (result.approved = DeterministicApproval)

\* the invalid inputs C10 lists
MalformedAddress(a) == ~(a.isstr /\ a.has0x /\ a.len = 42 /\ a.hex)

BadAmount(v) == v.kind # "int" \/ v.val < 0

InvalidInput(r) ==
    \/ MalformedAddress(r.trader_cash) \/ MalformedAddress(r.trader_sec)
    \/ BadAmount(r.required_cash) \/ BadAmount(r.required_sec)
    \/ r.required_cash.val = 0 /\ r.required_sec.val = 0

\* C10: a call with invalid input returns approved = false, final_decision =
\* 'error' before any stage or the classifier runs and leaves the validator's
\* memory and the detector's histories and counters unchanged.
C10_InvalidInputRejectedWithoutEffect ==
    [][ (calls' = calls + 1 /\ InvalidInput(req')) =>
            /\ pc' = "done"
            /\ result'.approved = FALSE /\ result'.final_decision = "error"
            /\ nodes_run' = << >>
            /\ UNCHANGED << current_risk_threshold, trade_history, learned_patterns >>
            /\ UNCHANGED << detection_stats, ml_trade_history, price_history,
                            trader_stats >> ]_vars

\* C10's case: an invalid call returned on a validator and a detector that an
\* earlier, completed call has changed
C10_Witness ==
    /\ pc = "done" /\ InvalidInput(req)
    /\ result.final_decision = "error"
    /\ trade_history # << >>
    /\ current_risk_threshold # 1000
    /\ detection_stats.total_checks > 0

-----------------------------------------------------------------------------
(* Error handling and the memory store *)

\* the call in req passed validate_inputs
ValidCall ==
    /\ "trader_cash" \in DOMAIN req
    /\ ValidateInputs(req.trader_cash, req.trader_sec,
                      req.required_cash, req.required_sec) = "ok"

\* a finished call whose graph run was cut short by an exception: the
\* decision node never returned
AbortedByException ==
    pc = "done" /\ ValidCall /\ state.final_decision = ""

\* C11: when a pipeline stage raises during assess_trade, the call returns a
\* structured assessment with final_decision = 'error', approved = false, an
\* 'error' field and the exception's message inside reasoning_chain; every
\* finished call has returned an assessment, none has thrown.
C11_StageExceptionBecomesErrorResult ==
    /\ pc = "done" => {"approved", "final_decision", "reasoning_chain"}
                         \subseteq DOMAIN result
    /\ AbortedByException =>
          /\ result.final_decision = "error"
          /\ result.approved = FALSE
          /\ "error" \in DOMAIN result
          /\ \E e \in ExceptionMessages :
                /\ result.error[Len(result.error)] = e
                /\ Contains(result.reasoning_chain, << e >>)

\* C11's case: the risk stage raised after the planning and balance stages
\* had run
C11_Witness ==
    /\ AbortedByException
    /\ Len(nodes_run) >= 2
    /\ result.error[Len(result.error)] = E_risk_level

\* C12: the memory store (trade_history, learned_patterns,
\* current_risk_threshold) changes only in the step that follows a completed
\* decision stage and returns a non-error assessment; a call that ends in a
\* validation error or a pipeline exception, and every step of a call before
\* its decision stage has completed, leaves all three exactly as they were.
C12_OnlyCompletedDecisionCommits ==
    [][ /\ (validator_memory' # validator_memory) =>
              /\ pc = "combine" /\ pc' = "done"
              /\ state.final_decision # ""
              /\ result'.final_decision # "error"
        /\ (pc' = "done" /\ result'.final_decision = "error") =>
              UNCHANGED validator_memory
        /\ (state'.final_decision = "") => UNCHANGED validator_memory ]_vars

\* C12's case: after one committed trade a second call was cut short by an
\* exception, and the memory store still holds exactly the first trade
C12_Witness ==
    /\ AbortedByException
    /\ calls = 2
    /\ Len(trade_history) = 1
    /\ current_risk_threshold # 1000

\* the step in which a call whose decision stage completed returns
CompletesDecision ==
    pc = "combine" /\ pc' = "done" /\ result'.final_decision # "error"

\* C13: every call that completes its decision stage, approved or rejected,
\* appends exactly one TradeRecord (the record of that trade) to
\* trade_history, whatever the validator's configuration.
C13_CompletedDecisionAppendsOneRecord ==
    [][ CompletesDecision =>
          /\ Len(trade_history') = Len(trade_history) + 1
          /\ SubSeq(trade_history', 1, Len(trade_history)) = trade_history
          /\ trade_history'[Len(trade_history')].required_cash = req.required_cash.val
          /\ trade_history'[Len(trade_history')].approved = result'.approved ]_vars

\* the step in which a learning validator records a completed trade
RecordsTrade == CompletesDecision /\ enable_learning

C14_ThresholdSmoothing ==
    [][ ( /\ CompletesDecision
          /\ enable_learning
          /\ result'.recommended_threshold # 0 ) =>
           /\ 10 * current_risk_threshold' =
                 7 * current_risk_threshold + 3 * result'.recommended_threshold
           /\ ( current_risk_threshold = 1000
                /\ result'.recommended_threshold = 2000 )
                 => current_risk_threshold' = 1300 ]_vars

-----------------------------------------------------------------------------
(* Similar trades *)

\* a _get_similar_trades query has returned
QueryAnswered == pc = "done" /\ "similar_trades" \in DOMAIN result

\* the amount is within 20% of the query amount, relative to the query
Within20Percent(stored, query) ==
    100 * Abs(stored - query) <= 20 * Max(query, 1)

\* C16: _get_similar_trades returns only stored records whose cash amount
\* and whose securities amount are each within 20% of the query amounts; for
\* a query of 1000 a stored 1150 matches and a stored 1250 does not; a record
\* that matches on one amount only is never returned.
C16_SimilarWithinTwentyPercent ==
    QueryAnswered =>
       LET similar == result.similar_trades
           cash == req.required_cash.val
           sec == req.required_sec.val
       IN /\ \A k \in 1..Len(similar) :
                /\ similar[k].timestamp \in 1..Len(trade_history)
                /\ trade_history[similar[k].timestamp].required_cash
                      = similar[k].amount_cash
                /\ trade_history[similar[k].timestamp].required_sec
                      = similar[k].amount_sec
                /\ Within20Percent(similar[k].amount_cash, cash)
                /\ Within20Percent(similar[k].amount_sec, sec)
          /\ cash = 1000 =>
                /\ \A k \in 1..Len(similar) : similar[k].amount_cash # 1250
                /\ ( /\ Len(trade_history) <= result.limit
                     /\ \E i \in 1..Len(trade_history) :
                           trade_history[i] = StoredTrade(1150, 10) )
                      => \E k \in 1..Len(similar) : similar[k].amount_cash = 1150

\* C16's case: a query of 1000 / 10 against a history that holds a 1150, a
\* 1250 and a record matching on the cash amount only; the 1150 is returned
C16_Witness ==
    /\ QueryAnswered
    /\ req.required_cash.val = 1000
    /\ \E i, j, k \in 1..Len(trade_history) :
          /\ trade_history[i] = StoredTrade(1150, 10)
          /\ trade_history[j] = StoredTrade(1250, 10)
          /\ trade_history[k] = StoredTrade(1100, 13)
    /\ Len(result.similar_trades) = 1
    /\ result.similar_trades[1].amount_cash = 1150

\* positions of all stored records that match the query in req
MatchingPositions ==
    { i \in 1..Len(trade_history) :
         /\ WithinFifth(trade_history[i].required_cash, req.required_cash.val)
         /\ WithinFifth(trade_history[i].required_sec, req.required_sec.val) }

\* C17: _get_similar_trades returns at most limit records, the most recently
\* stored matching records of the whole store, most recent first; when more
\* than limit records match, the newest matching record is the first element.
C17_SimilarMostRecentFirst ==
    QueryAnswered =>
       LET similar == result.similar_trades
           M == MatchingPositions
           returned == { similar[k].timestamp : k \in 1..Len(similar) }
       IN /\ Len(similar) <= result.limit
          /\ Len(similar) = Min(result.limit, Cardinality(M))
          /\ returned \subseteq M
          /\ \A i \in returned : \A j \in M \ returned : j < i
          /\ \A k \in 1..(Len(similar) - 1) :
                similar[k].timestamp > similar[k + 1].timestamp
          /\ Cardinality(M) > result.limit =>
                similar[1].timestamp = CHOOSE i \in M : \A j \in M : j <= i

-----------------------------------------------------------------------------
(* Concurrent callers *)

AllReturned == threads # NoThreads /\ \A t \in Threads : threads[t].pc = "returned"

\* the threads whose trade carries a recommended threshold
Adapting == { t \in Threads : threads[t].res.recommended_threshold # 0 }

\* the orders in which the threads of T can take turns
Orders(T) ==
    { o \in [1..Cardinality(T) -> T] :
         \A i, j \in 1..Cardinality(T) : i # j => o[i] # o[j] }

\* the threshold after the smoothing updates of order[k..] applied to thr
RECURSIVE SerialThreshold(_, _, _)
SerialThreshold(order, k, thr) ==
    IF k > Len(order) THEN thr
    ELSE SerialThreshold(order, k + 1,
            SmoothedThreshold(thr, threads[order[k]].res.recommended_threshold))

\* C18: concurrent assess_trade calls serialize their threshold updates: when
\* all have returned the threshold is what applying every completed trade's
\* smoothing update one after another, in some order, gives; no update is
\* lost by two calls reading the same prior value.
C18_ThresholdUpdatesSerialized ==
    AllReturned =>
       \E order \in Orders(Adapting) :
          current_risk_threshold
             = SerialThreshold(order, 1, DEFAULT_RISK_THRESHOLD)

\* C19: the append of a TradeRecord and the trim to 1000 entries never
\* interleave so as to lose a record: the record of every call that has
\* returned is in trade_history while fewer than 1000 newer records have
\* been appended (here at most NumThreads - 1 are newer).
C19_NoRecordLostToEviction ==
    \A t \in DOMAIN threads :
       threads[t].pc = "returned" =>
          \E i \in 1..Len(trade_history) :
             trade_history[i] = TradeRecord(threads[t].res)

\* the predict_fraud calls that returned a verdict of one of the levels
VerdictsOf(levels) == Cardinality({ t \in Threads : threads[t].level \in levels })

\* C20: N concurrent predict_fraud calls update the statistics atomically:
\* when all have finished, total_checks has grown by exactly N and each
\* risk-level counter by the number of verdicts of its level (high_risk
\* counts the CRITICAL and the HIGH verdicts).  The detector starts with all
\* counters 0.
C20_StatisticsUpdatedAtomically ==
    AllReturned =>
       /\ detection_stats.total_checks = NumThreads
       /\ detection_stats.high_risk = VerdictsOf({"CRITICAL", "HIGH"})
       /\ detection_stats.medium_risk = VerdictsOf({"MEDIUM"})
       /\ detection_stats.low_risk = VerdictsOf({"LOW"})

\* the last predict_fraud call returned the model's verdict
ModelVerdict == calls > 0 /\ ml_result.features_extracted.extracted

\* C21: a verdict of the model has risk_level CRITICAL for a probability of
\* at least 0.5, HIGH from 0.2 up to 0.5, MEDIUM from 0.1 up to 0.2 and LOW
\* below 0.1, and is_fraudulent exactly when the probability is at least the
\* configured decision threshold, whatever the risk level
C21_RiskLevelAndVerdict ==
    ModelVerdict =>
       LET p == ml_result.fraud_probability
       IN /\ (ml_result.risk_level = "CRITICAL") = (p >= 50)
          /\ (ml_result.risk_level = "HIGH") = (p >= 20 /\ p < 50)
          /\ (ml_result.risk_level = "MEDIUM") = (p >= 10 /\ p < 20)
          /\ (ml_result.risk_level = "LOW") = (p < 10)
          /\ ml_result.is_fraudulent = (p >= threshold)

\* a MEDIUM verdict that is fraudulent under a threshold of 0.15
C21_Witness ==
    /\ ModelVerdict
    /\ ml_result.risk_level = "MEDIUM"
    /\ ml_result.is_fraudulent
    /\ threshold = 15

\* the classifier gave no verdict of the model for the current call: it is
\* disabled, the ledger read or the feature extraction failed, or the model
\* raised
ClassifierUnavailable ==
    ValidCall /\ pc # "idle" /\ ml_result.risk_level \in {"UNKNOWN", "ERROR"}

\* C22: when the classifier is disabled, feature extraction fails or the
\* classifier errors, the verdict is is_fraudulent = false with probability
\* 0 and no risk-level counter of the model moves; the call still enters the
\* pipeline, a completed call has run the BALANCE, RISK and DECISION stages,
\* and its approved flag is the pipeline's own.
C22_ClassifierFailureLeavesPipelineInCharge ==
    [][ /\ ClassifierUnavailable' =>
              /\ ml_result'.is_fraudulent = FALSE
              /\ ml_result'.fraud_probability = 0
        /\ (CanStart(MaxCalls) /\ ClassifierUnavailable') =>
              /\ pc' = "agent_planning"
              /\ detection_stats'.high_risk = detection_stats.high_risk
              /\ detection_stats'.medium_risk = detection_stats.medium_risk
              /\ detection_stats'.low_risk = detection_stats.low_risk
              /\ detection_stats'.fraud_detected = detection_stats.fraud_detected
        /\ (CompletesDecision /\ ClassifierUnavailable) =>
              /\ Count(nodes_run, "enhanced_balance") = 1
              /\ Count(nodes_run, "intelligent_risk") = 1
              /\ Count(nodes_run, "agent_decision") = 1
              /\ result'.approved = state.approved
              /\ result'.ml_override = FALSE
      ]_vars

\* feature extraction failed on the second call (the first trade's price
\* was 0) and the pipeline approved the trade
C22_Witness ==
    /\ pc = "done"
    /\ calls = 2
    /\ enable_ml_fraud_detection
    /\ ml_result.reasoning = "Feature extraction failed"
    /\ result.approved

\* a predict_fraud call whose feature extraction succeeded
ExtractionSucceeds == calls' = calls + 1 /\ ml_result'.features_extracted.extracted

\* C23: every token's price history holds at most 100 prices and the
\* detector's trade history at most 1000 events; a successful extraction
\* appends exactly one price to the trade's token and exactly one event to
\* the trade history, dropping the oldest entry of a full history.
C23_DetectorHistoriesBounded ==
    [][ /\ Len(ml_trade_history') <= 1000
        /\ \A t \in DOMAIN price_history' : Len(price_history'[t]) <= 100
        /\ ExtractionSucceeds =>
              LET trade == req'
                  event == [ buyer |-> trade.buyer_id, seller |-> trade.seller_id,
                             size |-> trade.trade_size, price |-> trade.trade_price ]
                  before == PricesOf(price_history, trade.token)
              IN /\ ml_trade_history' =
                       Append(IF Len(ml_trade_history) = 1000
                              THEN Tail(ml_trade_history) ELSE ml_trade_history,
                              event)
                 /\ price_history'[trade.token] =
                       Append(IF Len(before) = 100 THEN Tail(before) ELSE before,
                              trade.trade_price)
      ]_vars

\* both histories were full and have taken two more entries
C23_Witness ==
    /\ calls = 2
    /\ ml_result.features_extracted.extracted
    /\ Len(ml_trade_history) = 1000
    /\ ml_trade_history[1] = SeenTrade(3, 1000, 0, FALSE)
    /\ ml_trade_history[999].buyer = "B"
    /\ Len(price_history["GENERIC"]) = 100
    /\ price_history["GENERIC"][99] = 60

\* event i of the trade history is between the two parties, in either order
SamePair(event, buyer, seller) ==
    \/ event.buyer = buyer /\ event.seller = seller
    \/ event.buyer = seller /\ event.seller = buyer

\* C24: the counterparty_repeat feature of an extraction is 1 exactly when
\* the (buyer, seller) pair, in either order, is among the last 100 trades
\* recorded before this one, and 0 otherwise; the trade does not count itself.
C24_CounterpartyRepeat ==
    [][ ExtractionSucceeds =>
          LET n == Len(ml_trade_history)
              seen == \E i \in 1..n :
                         /\ i > n - 100
                         /\ SamePair(ml_trade_history[i], req'.buyer_id,
                                     req'.seller_id)
          IN ml_result'.features_extracted.counterparty_repeat =
                IF seen THEN 1 ELSE 0
      ]_vars

\* B buys from A when A bought from B exactly 100 trades ago
C24_Witness ==
    /\ calls = 1
    /\ Len(ml_trade_history) = 101
    /\ ml_trade_history[1].buyer = "A" /\ ml_trade_history[1].seller = "B"
    /\ ml_trade_history[101].buyer = "B" /\ ml_trade_history[101].seller = "A"
    /\ \A i \in 2..100 : ml_trade_history[i].buyer = "C"
    /\ ml_result.features_extracted.extracted
    /\ ml_result.features_extracted.counterparty_repeat = 1

\* the number of the last 20 recorded trades that satisfy P
RecentCount(history, P(_)) ==
    Cardinality({ i \in 1..Len(history) : i > Len(history) - 20 /\ P(history[i]) })

\* C25: the manipulation flag of an extraction is 1 exactly when the price
\* deviates from the market price by more than 5% while the rolling
\* volatility is below 0.1, or the buyer is the buyer of more than 10 of the
\* last 20 recorded trades, or the seller the seller of more than 10 of
\* them; otherwise it is 0.
C25_ManipulationFlag ==
    [][ ExtractionSucceeds =>
          LET trade == req'
              IsBuyer(event) == event.buyer = trade.buyer_id
              IsSeller(event) == event.seller = trade.seller_id
              deviates == /\ trade.market_price > 0
                          /\ \/ 100 * (trade.trade_price - trade.market_price)
                                   > 5 * trade.market_price
                             \/ 100 * (trade.market_price - trade.trade_price)
                                   > 5 * trade.market_price
              calm == VolatilityBelowTenth(price_history'[trade.token])
          IN ml_result'.features_extracted.attempted_manip =
                IF \/ deviates /\ calm
                   \/ RecentCount(ml_trade_history, IsBuyer) > 10
                   \/ RecentCount(ml_trade_history, IsSeller) > 10
                THEN 1 ELSE 0
      ]_vars

\* A is the buyer of 11 of the last 20 trades and buys again at the market
\* price: the flag is raised by the count alone
C25_Witness ==
    /\ calls = 1
    /\ Len(ml_trade_history) = 22
    /\ Cardinality({ i \in 2..21 : ml_trade_history[i].buyer = "A" }) = 11
    /\ req.buyer_id = "A" /\ req.seller_id = "C"
    /\ req.trade_price = req.market_price
    /\ ml_result.features_extracted.extracted
    /\ ml_result.features_extracted.attempted_manip = 1

\* the risk stage of the current call has returned
RiskStageDone ==
    pc \notin {"idle", "done"} /\ Member(state.completed_checks, "risk_assessment")

\* C26: the risk verdict computed without the reasoner is high exactly when
\* required_cash exceeds the validator's current adaptive threshold.
C26_NotionalRiskFollowsThreshold ==
    RiskStageDone =>
       (HighOrCritical(state.risk_assessment)
           = (state.required_cash > current_risk_threshold))

\* party ids taken to be on a blacklist.  No set of this kind exists in the
\* validator, the graph or the detector: no stage looks a party id up.
Blacklist == {"B"}

Blacklisted(r) == r.trader_cash.id \in Blacklist \/ r.trader_sec.id \in Blacklist

\* C27: a trade one of whose parties is on the blacklist is never approved.
C27_BlacklistedNeverApproved ==
    (pc = "done" /\ ValidCall /\ Blacklisted(req)) => result.approved = FALSE

\* C30: every assessment assess_trade returns has final_decision among
\* approved, rejected, manual_review and error, and approved = true exactly
\* when final_decision is approved; an error assessment has approved = false
\* and carries an error message.
C30_FinalDecisionDomain ==
    pc = "done" =>
       /\ result.final_decision \in {"approved", "rejected", "manual_review", "error"}
       /\ result.approved = (result.final_decision = "approved")
       /\ result.final_decision = "error" =>
             /\ result.approved = FALSE
             /\ "error" \in DOMAIN result
             /\ result.error # << >>

\* the reasoner asked for a manual review and the assessment came back
\* rejected
C30_Witness ==
    /\ pc = "done"
    /\ state.llm_decision_raw = T_MANUAL_REVIEW
    /\ result.final_decision = "rejected"
    /\ result.approved = FALSE

\* item i of the batch is a well-formed trade with valid inputs
ValidItem(item) ==
    /\ "trader_cash" \in DOMAIN item
    /\ ValidateInputs(item.trader_cash, item.trader_sec,
                      item.required_cash, item.required_sec) = "ok"

\* C29: assess_multiple_trades returns one result per request, in request
\* order, result i carrying trade_index i; an item that fails yields an error
\* result with approved = false and the items after it are still assessed;
\* in the statistics approved_trades + rejected_trades = total_trades = the
\* number of results, and approved_trades is the number of results with
\* approved = true.
C29_BatchResults ==
    pc = "done" =>
       LET results == result.batch_results
           stats == result.statistics
       IN /\ Len(results) = Len(req)
          /\ \A i \in 1..Len(results) :
                /\ results[i].trade_index = i - 1
                /\ ~ValidItem(req[i]) =>
                      /\ results[i].final_decision = "error"
                      /\ results[i].approved = FALSE
                /\ ValidItem(req[i]) =>
                      /\ "trade_details" \in DOMAIN results[i]
                            => /\ results[i].trade_details.required_cash
                                     = req[i].required_cash.val
                               /\ results[i].trade_details.required_sec
                                     = req[i].required_sec.val
                      /\ "trade_details" \notin DOMAIN results[i]
                            => results[i].error[1] = "Error during agentic assessment: "
          /\ stats.approved_trades + stats.rejected_trades = stats.total_trades
          /\ stats.total_trades = Len(results)
          /\ stats.approved_trades =
                Cardinality({ i \in 1..Len(results) : results[i].approved })

\* the first item has no trader_cash key, the second is assessed and approved
C29_Witness ==
    /\ pc = "done"
    /\ Len(req) = 2
    /\ req[1] = MissingKey
    /\ result.batch_results[1].final_decision = "error"
    /\ result.batch_results[2].approved
    /\ result.batch_results[2].trade_index = 1
    /\ result.statistics.approved_trades = 1
    /\ result.statistics.rejected_trades = 1

\* calls i and j had the same arguments, started from the same shared state
\* and got the same answers from the collaborators
SameCall(i, j) ==
    /\ threads[i].request = threads[j].request
    /\ threads[i].start = threads[j].start
    /\ threads[i].answers = threads[j].answers

-----------------------------------------------------------------------------
(* Confidence, the router, and the frame of the validator's memory *)

\* the planning node of the call in flight has returned and no later node
\* has raised
PlanningDone ==
    pc \in { "context_gathering", "enhanced_balance", "intelligent_risk",
             "agent_decision", "combine" }

\* C31: from the end of the planning stage to the returned assessment,
\* confidence_score lies in [0, 1], whatever confidence the planning
\* reasoner supplies.
C31_ConfidenceWithinUnitInterval ==
    /\ PlanningDone => state.confidence_score \in 0..100
    /\ DecisionCompleted => result.confidence_score \in 0..100

\* the node at pc returns in this step (it is appended to nodes_run)
NodeReturnsStep == nodes_run' = Append(nodes_run, pc)

\* C34: the risk stage is the only stage after planning that changes
\* confidence_score, and it sets it to min(previous + 0.1, 1.0); the context
\* and balance stages (and the decision stage) leave it as it is, so the
\* returned assessment carries min(planning confidence + 0.1, 1.0).
C34_OnlyRiskStageChangesConfidence ==
    [][ /\ (pc = "intelligent_risk" /\ NodeReturnsStep) =>
              state'.confidence_score = Min(state.confidence_score + 10, 100)
        /\ (pc \in {"context_gathering", "enhanced_balance", "agent_decision"}) =>
              state'.confidence_score = state.confidence_score
        /\ (pc = "intelligent_risk" /\ ~NodeReturnsStep) =>
              state'.confidence_score = state.confidence_score
        /\ pc = "combine" =>
              /\ result'.confidence_score = state.confidence_score
              /\ Count(nodes_run, "intelligent_risk") = 1 ]_vars

\* C34's case: a call that ran context, balance and risk has returned an
\* assessment whose confidence the risk stage capped at 1.0
C34_Witness ==
    /\ DecisionCompleted
    /\ Member(nodes_run, "context_gathering")
    /\ Member(nodes_run, "enhanced_balance")
    /\ result.confidence_score = 100

\* the step in which reset_learning runs
ResetStep == req' = MethodCall("reset_learning") /\ pc' = "done"

\* the step is the learning update of a completed assessment that carries a
\* recommended threshold
SmoothingStep ==
    CompletesDecision /\ enable_learning /\ result'.recommended_threshold # 0

\* C32: after construction current_risk_threshold changes only in the
\* learning update of a completed assessment; reset_learning empties
\* trade_history and the learned patterns and leaves the threshold as it is,
\* and so do get_agent_memory, get_health_status and error assessments.
C32_ThresholdChangedOnlyByLearning ==
    [][ /\ (current_risk_threshold' # current_risk_threshold) => SmoothingStep
        /\ ResetStep =>
              /\ trade_history' = << >>
              /\ learned_patterns' = EmptyPatterns
              /\ current_risk_threshold' = current_risk_threshold ]_vars

\* C32's case: reset_learning has run on a validator whose threshold an
\* earlier assessment had moved away from the constructor's value
C32_Witness ==
    /\ req = MethodCall("reset_learning")
    /\ pc = "done"
    /\ calls >= 1
    /\ trade_history = << >>
    /\ current_risk_threshold # 1000

-----------------------------------------------------------------------------
(* The market simulation *)

\* the step is one tick of the market simulation
TickStep ==
    simulation'.stats.total_attempts = simulation.stats.total_attempts + 1

\* the transactions a step adds to the ledger
NewTransactions ==
    SubSeq(simulation'.ledger, Len(simulation.ledger) + 1, Len(simulation'.ledger))

\* C33: the ledger execution sequence (token approvals, initTrade,
\* approveTrade, executeTrade) is started for a trade only after its
\* assessment came back with approved = true; a trade whose assessment has
\* approved = false sends no ledger transaction and is never counted as
\* executed.
C33_ExecutionOnlyAfterApproval ==
    [][ TickStep =>
          /\ SubSeq(simulation'.ledger, 1, Len(simulation.ledger)) = simulation.ledger
          /\ \A k \in 1..Len(NewTransactions) :
                /\ result'.approved
                /\ NewTransactions[k].attempt = simulation'.stats.total_attempts
                /\ NewTransactions[k].fn = ExecutionSequence[k]
          /\ simulation'.stats.executed_trades # simulation.stats.executed_trades
                => result'.approved
          /\ ~result'.approved =>
                /\ simulation'.ledger = simulation.ledger
                /\ simulation'.stats.executed_trades = simulation.stats.executed_trades
                /\ simulation'.stats.execution_failures
                      = simulation.stats.execution_failures ]_vars

\* C33's case: the first trade was approved and executed, the second was
\* approved by the agent pipeline and blocked by the classifier: the ledger
\* holds the six transactions of the first trade and none of the second
C33_Witness ==
    /\ simulation.stats.total_attempts = 2
    /\ simulation.stats.executed_trades = 1
    /\ Len(simulation.ledger) = Len(ExecutionSequence)
    /\ \A k \in 1..Len(simulation.ledger) : simulation.ledger[k].attempt = 1
    /\ result.approved = FALSE
    /\ MlOverride(result)
    /\ result.agent_decision = TRUE

\* C40: after any number of ticks, total_attempts = approved_trades +
\* rejected_trades, approved_trades = executed_trades + execution_failures,
\* and rejected_trades = ml_fraud_blocked + agent_rejected.
C40_SimulationCountersAddUp ==
    LET stats == simulation.stats
    IN /\ stats.total_attempts = stats.approved_trades + stats.rejected_trades
       /\ stats.approved_trades = stats.executed_trades + stats.execution_failures
       /\ stats.rejected_trades = stats.ml_fraud_blocked + stats.agent_rejected

-----------------------------------------------------------------------------
(* Routing *)

\* the stages a run goes through for the plan the planning stage returned
PlannedRoute ==
    << "agent_planning" >>
    \o (IF Member(state.investigation_plan, "context_analysis")
        THEN << "context_gathering" >> ELSE << >>)
    \o << "enhanced_balance", "intelligent_risk", "agent_decision" >>

\* the run of the graph is under way or has ended
RunStarted == nodes_run # << >>

\* the stages run so far are the first stages of the planned route, and the
\* run stands at the next one
OnPlannedRoute ==
    /\ Len(nodes_run) <= Len(PlannedRoute)
    /\ nodes_run = SubSeq(PlannedRoute, 1, Len(nodes_run))
    /\ pc \notin {"idle", "done", "combine"} => pc = PlannedRoute[Len(nodes_run) + 1]
    /\ pc = "combine" => nodes_run = PlannedRoute

\* the run has reached the decision stage, or a stage raised and the call
\* returned its error assessment
DecisionReachedOrAborted ==
    pc \in {"agent_decision", "combine"} \/ Member(nodes_run, "agent_decision")
       \/ AbortedByException

\* C35: for every plan the planning stage returns, the router terminates:
\* the run reaches the decision stage after at most three intermediate
\* stages, no stage is run twice, and the order is context (only if
\* 'context_analysis' is in the plan), balance, risk, decision.
C35_RouterTerminatesInOrder ==
    /\ [](RunStarted => OnPlannedRoute)
    /\ (pc = "agent_planning") ~> DecisionReachedOrAborted

\* C35's case: a plan that names risk before context and never names
\* balance; the run went through context, balance and risk to the decision
C35_Witness ==
    /\ state.investigation_plan = << "risk_assessment", "context_analysis" >>
    /\ nodes_run = << "agent_planning", "context_gathering", "enhanced_balance",
                      "intelligent_risk", "agent_decision" >>
    /\ pc = "done"

-----------------------------------------------------------------------------
(* The adaptive threshold *)

\* C36: after every threshold update the new adaptive threshold lies
\* between the old threshold and the recommended one (inclusive), and when
\* the risk stage recommends no new threshold (the recommendation is then
\* the current threshold) the trade leaves the adaptive threshold unchanged.
C36_ThresholdStaysBetween ==
    [][ (CompletesDecision /\ enable_learning) =>
          /\ result'.recommended_threshold # 0 =>
                /\ current_risk_threshold'
                      >= Min(current_risk_threshold, result'.recommended_threshold)
                /\ current_risk_threshold'
                      <= Max(current_risk_threshold, result'.recommended_threshold)
          /\ result'.recommended_threshold = current_risk_threshold =>
                current_risk_threshold' = current_risk_threshold ]_vars

-----------------------------------------------------------------------------
(* A validator that does not learn *)

\* C37: with enable_learning = false no assess_trade or
\* assess_multiple_trades call changes trade_history, learned_patterns or
\* current_risk_threshold, so a similar-trades lookup always returns an
\* empty list.
C37_NoLearningNoMemory ==
    /\ [][ ~enable_learning => UNCHANGED validator_memory ]_vars
    /\ []( (~enable_learning /\ QueryAnswered) => result.similar_trades = << >> )

\* C37's case: after an assessment of a trade of 500 for 10 by the validator
\* and its classifier, a lookup for exactly these amounts has returned
C37_Witness ==
    /\ ~enable_learning
    /\ QueryAnswered
    /\ req = Request(AddrA, AddrB, Num(500), Num(10))
    /\ calls >= 1
    /\ Len(ml_trade_history) >= 1
    /\ ml_trade_history[1].size = 10
    /\ result.similar_trades = << >>

-----------------------------------------------------------------------------
(* The detector's memory and counters *)

\* the step is a predict_fraud call whose extract_features returned None
ExtractionFails ==
    /\ calls' = calls + 1
    /\ ml_result'.reasoning = "Feature extraction failed"

\* C38: an extract_features call that fails leaves the detector's per-token
\* price history, its trade history and its trader statistics exactly as
\* they were before the call.
C38_FailedExtractionLeavesNoTrace ==
    [][ ExtractionFails =>
          UNCHANGED << price_history, ml_trade_history, trader_stats >> ]_vars

\* the verdicts tallied by risk level
RiskTally(stats) == stats.high_risk + stats.medium_risk + stats.low_risk

\* the step is a predict_fraud call
PredictStep == calls' = calls + 1

\* C39: after any sequence of predict_fraud calls, high_risk + medium_risk +
\* low_risk is the number of calls that produced a verdict of the model,
\* total_checks the number of calls made, and fraud_detected is at most
\* total_checks; a call whose extraction or prediction failed increases
\* total_checks only.
C39_DetectorCountersConsistent ==
    /\ []( /\ detection_stats.total_checks = calls
           /\ RiskTally(detection_stats) <= detection_stats.total_checks
           /\ detection_stats.fraud_detected <= detection_stats.total_checks )
    /\ [][ PredictStep =>
             /\ detection_stats'.total_checks = detection_stats.total_checks + 1
             /\ IF ml_result'.features_extracted.extracted
                THEN /\ RiskTally(detection_stats') = RiskTally(detection_stats) + 1
                     /\ detection_stats'.fraud_detected =
                          detection_stats.fraud_detected
                             + (IF ml_result'.is_fraudulent THEN 1 ELSE 0)
                ELSE detection_stats' =
                        [detection_stats EXCEPT !.total_checks = @ + 1] ]_vars

\* C39's case: two calls, the first answered by the model with a fraudulent
\* verdict, the second failing in the feature extraction
C39_Witness ==
    /\ calls = 2
    /\ detection_stats.total_checks = 2
    /\ detection_stats.high_risk = 1
    /\ detection_stats.fraud_detected = 1
    /\ ml_result.reasoning = "Feature extraction failed"

=============================================================================
